---- MODULE Spec2Model ----
(***************************************************************************)
(* Model of the lingq-library repository:                                  *)
(*   - the grouped test runner  (src/test/testinglib.ts)                   *)
(*   - the API client  (src/src/index.ts)                                  *)
(*   - the flat queue runner  (src/src/testinglib.ts)                      *)
(*   - the test script of the flat runner  (src/src/test.ts)               *)
(***************************************************************************)
EXTENDS Integers, Sequences, FiniteSets, TLC

\* ------------------------------------------------------------------------
\* Bounds
\* ------------------------------------------------------------------------
\* Number of test cases (tests and groups) created in one execution.
MaxNodes == 4
\* Number of createTestGroup callbacks open at the same time.
MaxDepth == 2
\* Number of client operations invoked on one client instance.
MaxCalls == 2
\* Length of the CSRF token and of the session id.
MaxTokenLen == 2
\* Number of client operations each of the overlapping tasks invokes.
MaxTaskCalls == 2
\* Number of tests created for the flat queue runner in one execution.
MaxTests == 6
\* Number of test cases created in one execution when the creator of every
\* case is kept.
MaxRunNodes == 3

VARIABLES
    \* ---- grouped runner (src/test/testinglib.ts) ----
    nodes,       \* every TestCase object created so far, indexed by creation number
    rootTests,   \* the rootTests array: ids of the top-level cases
    groupStack,  \* the groupStack array: ids of groups
    results,     \* the results array
    pc,          \* "script" (module top level, before runTests()), "running",
                 \* "done" (runTests resolved), "rejected" (runTests rejected)
    stack,       \* the suspended async calls runTests / runGroup / runTest
    callbacks,   \* the createTestGroup calls whose testsCallback is executing
    summary,     \* what printSummary has printed, one entry per call
    \* ---- history of the run, used to state properties ----
    started,     \* ids of the tests whose body was invoked, in order
    body,        \* per test: "idle", "active", "ok" (resolved), "threw" (rejected)
    signal,      \* per case: value runTestCase returned ("none", "T", "F")
    skipBy,      \* per case: 0, or the group whose loop called skipTestCase
    entered,     \* set of groups runGroup was invoked on
    createdBy,   \* per case: the test whose body created it, 0 for the script;
                 \* <<>> in the specifications that do not keep this history
    \* ---- API client (src/src/index.ts) ----
    client,      \* the fields of the LingqAPI instance
    request,     \* the last fetch() issued: operation, method, url, headers
    outcome,     \* how the last operation ended: what it returned or threw
    calls,       \* number of client operations invoked
    given,       \* the arguments the constructor was called with
    \* ---- two overlapping tasks that call the client (src/src/index.ts) ----
    shared,      \* whether the two tasks were handed one LingqAPI instance
    instances,   \* the fields of the LingqAPI instances the tasks use
    task,        \* per task: where it is, its last request and outcome
    \* ---- flat queue runner (src/src/testinglib.ts) ----
    flat,        \* tests, results, globalFailure, and the history of the run
    \* ---- test script of the flat runner (src/src/test.ts) ----
    lessonId,    \* the id the script's tests captured from 'Lesson Create'
    \* ---- test script of the grouped runner (src/test/test.ts) ----
    harness      \* where the script and the body of the running test are

runnerVars == <<nodes, rootTests, groupStack, results, pc, stack, callbacks,
                summary, started, body, signal, skipBy, entered, createdBy>>
clientVars == <<client, request, outcome, calls, given>>
taskVars == <<shared, instances, task>>
flatVars == <<flat, lessonId>>
vars == <<nodes, rootTests, groupStack, results, pc, stack, callbacks,
          summary, started, body, signal, skipBy, entered, createdBy,
          client, request, outcome, calls, given,
          shared, instances, task, flat, lessonId, harness>>

NodeIds == 1..MaxNodes

\* ------------------------------------------------------------------------
\* Values a test body can reject with
\* ------------------------------------------------------------------------
Thrown ==
    { [kind |-> "Error",     text |-> "boom"],   \* new Error("boom")
      [kind |-> "string",    text |-> "oops"],   \* throw "oops"
      [kind |-> "object",    text |-> ""],       \* throw {}
      [kind |-> "null",      text |-> ""],       \* throw null
      [kind |-> "undefined", text |-> ""] }      \* throw undefined / Promise.reject()

\* Reading a property of null or undefined raises a TypeError.
HasProperties(e) == e.kind \notin {"null", "undefined"}

\* e.message ("" stands for a falsy value: undefined or the empty string).
MessageOf(e) == IF e.kind = "Error" THEN e.text ELSE ""

\* String(e), as a sequence of string pieces.
StringOf(e) ==
    CASE e.kind = "Error"  -> IF e.text = "" THEN <<"Error">> ELSE <<"Error: ", e.text>>
      [] e.kind = "string" -> <<e.text>>
      [] e.kind = "object" -> <<"[object Object]">>
      [] OTHER             -> <<e.kind>>

\* e.message || String(e)
ErrorText(e) == IF MessageOf(e) # "" THEN <<MessageOf(e)>> ELSE StringOf(e)

\* ------------------------------------------------------------------------
\* Registration: createTest / createTestGroup
\* ------------------------------------------------------------------------
Last(s) == s[Len(s)]
Front(s) == SubSeq(s, 1, Len(s) - 1)

\* Code that calls createTest / createTestGroup is executing: the module's top
\* level before runTests(), or the body of the test that is being run.
CanRegister ==
    \/ pc = "script"
    \/ pc = "running" /\ Last(stack).fn = "runTest"

\* The code that is calling createTest / createTestGroup: the test whose body
\* is executing, 0 for the top level of the script.
Creator == IF pc = "running" THEN Last(stack).node ELSE 0

\* The history of creators after case id was created, where it is kept.
CreatedBy(id) == IF createdBy = <<>> THEN createdBy ELSE [createdBy EXCEPT ![id] = Creator]

\* The number of cases one execution may create.
NodeLimit == IF createdBy = <<>> THEN MaxNodes ELSE MaxRunNodes

\* The case object built by createTest (line 65) / createTestGroup (line 90).
NewCase(type, id, blocking) ==
    [type |-> type, name |-> ToString(id), blocking |-> blocking, tests |-> <<>>]

\* Variant of Register: a case created by a running body, with no group open,
\* becomes the last child of the group that holds the creating test.
RegisterBesideCreator(id, case) ==
    LET holders == { g \in 1..Len(nodes) :
                        /\ nodes[g].type = "group"
                        /\ \E k \in 1..Len(nodes[g].tests) : nodes[g].tests[k] = Creator }
        target == IF Len(groupStack) > 0 THEN {Last(groupStack)}
                  ELSE IF Creator # 0 THEN holders ELSE {}
    IN  IF target # {}
        THEN /\ nodes' = [Append(nodes, case) EXCEPT ![CHOOSE g \in target : TRUE].tests =
                                                         Append(@, id)]
             /\ rootTests' = rootTests
        ELSE /\ nodes' = Append(nodes, case)
             /\ rootTests' = Append(rootTests, id)

\* With an open group the new case becomes its last child, without one it is
\* pushed on rootTests (lines 66-70 and 91-97).
Register(id, case) ==
    IF Len(groupStack) > 0
    THEN /\ nodes' = [Append(nodes, case) EXCEPT ![Last(groupStack)].tests = Append(@, id)]
         /\ rootTests' = rootTests
    ELSE /\ nodes' = Append(nodes, case)
         /\ rootTests' = Append(rootTests, id)

createTest(blocking) ==
    /\ CanRegister
    /\ Len(nodes) < NodeLimit
    /\ Register(Len(nodes) + 1, NewCase("test", Len(nodes) + 1, blocking))
    /\ createdBy' = CreatedBy(Len(nodes) + 1)
    /\ UNCHANGED <<groupStack, results, pc, stack, callbacks, summary,
                   started, body, signal, skipBy, entered>>
    /\ UNCHANGED <<clientVars, taskVars, flatVars, harness>>

\* createTestGroup up to the call of testsCallback (lines 90-100).
createTestGroup(blocking) ==
    /\ CanRegister
    /\ Len(nodes) < NodeLimit
    /\ Len(callbacks) < MaxDepth
    /\ Register(Len(nodes) + 1, NewCase("group", Len(nodes) + 1, blocking))
    /\ groupStack' = Append(groupStack, Len(nodes) + 1)
    /\ callbacks' = Append(callbacks, [group |-> Len(nodes) + 1, depth |-> Len(groupStack)])
    /\ createdBy' = CreatedBy(Len(nodes) + 1)
    /\ UNCHANGED <<results, pc, stack, summary, started, body, signal, skipBy, entered>>
    /\ UNCHANGED <<clientVars, taskVars, flatVars, harness>>

\* Variant of PopGroup: the group is left on the stack.
PopGroupNone(s) == s

\* groupStack.pop() (line 101).
PopGroup(s) == Front(s)

\* testsCallback returns and createTestGroup pops the stack (lines 100-101).
createTestGroupReturn ==
    /\ CanRegister
    /\ Len(callbacks) > 0
    /\ callbacks' = Front(callbacks)
    /\ groupStack' = PopGroup(groupStack)
    /\ UNCHANGED <<nodes, rootTests, results, pc, stack, summary,
                   started, body, signal, skipBy, entered, createdBy>>
    /\ UNCHANGED <<clientVars, taskVars, flatVars, harness>>

\* ------------------------------------------------------------------------
\* The runner: runTests / runTestCase / runTest / runGroup / skipTestCase
\* ------------------------------------------------------------------------
\* A suspended async call.  i is the position of the for...of iterator.
Frame(fn, node) == [fn |-> fn, node |-> node, i |-> 1, groupBlocked |-> FALSE]

\* The array a loop iterates; for...of reads the live array at every step.
CasesOf(f) == IF f.fn = "runTests" THEN rootTests ELSE nodes[f.node].tests

\* `Skipped due to previous blocking failure in group "${group.name}"`
BlockedReason(name) == <<"Skipped due to previous blocking failure in group \"", name, "\"">>

\* `Skipped due to parent group "${testCase.name}" being blocked`
ParentReason(name) == <<"Skipped due to parent group \"", name, "\" being blocked">>

\* Variant of ChildReason: the reason of the skipped group is handed down as is.
ChildReasonInherited(name, reason) == reason

\* The reason skipTestCase hands to the children of a skipped group.
ChildReason(name, reason) == ParentReason(name)

\* The entries skipTestCase pushes on results, in order.
RECURSIVE skipTestCase(_, _), skipChildren(_, _, _)
skipChildren(children, k, reason) ==
    IF k > Len(children) THEN <<>>
    ELSE skipTestCase(children[k], reason) \o skipChildren(children, k + 1, reason)

skipTestCase(id, reason) ==
    IF nodes[id].type = "test"
    THEN <<[name |-> nodes[id].name, passed |-> FALSE, error |-> reason]>>
    ELSE skipChildren(nodes[id].tests, 1, ChildReason(nodes[id].name, reason))

\* The case itself and every case below it.
RECURSIVE Subtree(_)
Subtree(id) ==
    {id} \cup UNION { Subtree(nodes[id].tests[k]) : k \in 1..Len(nodes[id].tests) }

\* group.blocking, as runGroup reads it (lines 165, 175 and 182).
GroupBlocking(group) == nodes[group].blocking

\* The condition of line 165.
ShouldSkip(f) == GroupBlocking(f.node) /\ f.groupBlocked

\* Lines 175-177: a blocking group records the blocked signal of a child.
RecordBlocked(group, groupBlocked, blocked) ==
    IF GroupBlocking(group) /\ blocked THEN TRUE ELSE groupBlocked

\* Line 182: what runGroup returns.
GroupSignal(group, groupBlocked) ==
    IF GroupBlocking(group) THEN groupBlocked ELSE FALSE

\* Variant of TestSignal: every failed test reports "blocked".
TestSignalAlways(test) == TRUE

\* Variant of TestSignal: no failed test reports "blocked".
TestSignalNever(test) == FALSE

\* Line 149: what runTest returns for a failed test.
TestSignal(test) == nodes[test].blocking

\* The part of the state the runner works on, as one value.
RunState ==
    [stack |-> stack, results |-> results, pc |-> pc, summary |-> summary,
     started |-> started, body |-> body, signal |-> signal, skipBy |-> skipBy,
     entered |-> entered]

\* The awaited call returned `blocked`: the caller's loop goes on.
Resume(stk, blocked) ==
    LET caller == Last(stk) IN
    [stk EXCEPT ![Len(stk)] =
        IF caller.fn = "runGroup"
        THEN [caller EXCEPT !.i = @ + 1,
                            !.groupBlocked = RecordBlocked(caller.node, @, blocked)]
        ELSE [caller EXCEPT !.i = @ + 1]]

\* runTestCase(node) returns `blocked` to the call that awaits it.
Return(st, node, blocked) ==
    [st EXCEPT !.stack = Resume(Front(st.stack), blocked),
               !.signal[node] = IF blocked THEN "T" ELSE "F"]

\* Variant of InvokeTest: the body is invoked without being awaited, the
\* caller's loop goes on at once.
InvokeTestNoAwait(stk, test) == [stk EXCEPT ![Len(stk)].i = @ + 1]

\* `await test.fn()` (line 142): the caller stays suspended below the body.
InvokeTest(stk, test) == Append(stk, Frame("runTest", test))

\* runTest up to the await of the body (lines 140-142).
runTest(st, test) ==
    [st EXCEPT !.stack = InvokeTest(@, test),
               !.started = Append(@, test),
               !.body[test] = "active"]

\* Lines 165-171: the loop of a blocked blocking group skips `case`.
runGroupSkip(st, group, case) ==
    [st EXCEPT !.results = @ \o skipTestCase(case, BlockedReason(nodes[group].name)),
               !.skipBy = [n \in DOMAIN st.skipBy |->
                              IF n <= Len(nodes) /\ n \in Subtree(case) THEN group ELSE @[n]],
               !.stack[Len(st.stack)].i = @ + 1]

\* runGroup is entered (lines 162-164).
runGroup(st, group) ==
    [st EXCEPT !.stack = Append(@, Frame("runGroup", group)),
               !.entered = @ \cup {group}]

\* Lines 180-182: the loop of a group is over and runGroup returns.
runGroupReturn(st, group) ==
    Return(st, group, GroupSignal(group, Last(st.stack).groupBlocked))

\* runTestCase dispatches on the type of the case (lines 127-133).
runTestCase(st, case) ==
    IF nodes[case].type = "test" THEN runTest(st, case) ELSE runGroup(st, case)

\* printSummary (lines 208-225): the two lists it prints.
printSummary(res) ==
    [passedTests |-> SelectSeq(res, LAMBDA r : r.passed),
     failedTests |-> SelectSeq(res, LAMBDA r : ~r.passed)]

\* Lines 114-116: the loop over rootTests is over; the summary is printed and
\* runTests resolves.
runTestsEnd(st) ==
    [st EXCEPT !.summary = Append(@, printSummary(st.results)),
               !.pc = "done",
               !.stack = <<>>]

\* The runner has nothing to do before a body settles: it awaits the body of
\* a test, or runTests is over.
Suspended(st) == st.pc # "running" \/ Last(st.stack).fn = "runTest"

\* The runner's code between two awaits of a test body runs without
\* interruption: the loops of runTests (line 113) and runGroup (line 164) go
\* on, over the live arrays, until a body is awaited or runTests is over.
RECURSIVE Continue(_)
Continue(st) ==
    IF Suspended(st) THEN st
    ELSE LET f == Last(st.stack)
             cases == CasesOf(f)
         IN  IF f.i > Len(cases)
             THEN IF f.fn = "runTests"
                  THEN runTestsEnd(st)
                  ELSE Continue(runGroupReturn(st, f.node))
             ELSE IF f.fn = "runGroup" /\ ShouldSkip(f)
                  THEN Continue(runGroupSkip(st, f.node, cases[f.i]))
                  ELSE Continue(runTestCase(st, cases[f.i]))

\* The runner's state becomes st; it creates no case and opens no group.
Becomes(st) ==
    /\ stack' = st.stack
    /\ results' = st.results
    /\ pc' = st.pc
    /\ summary' = st.summary
    /\ started' = st.started
    /\ body' = st.body
    /\ signal' = st.signal
    /\ skipBy' = st.skipBy
    /\ entered' = st.entered
    /\ UNCHANGED <<nodes, rootTests, groupStack, callbacks, createdBy>>
    /\ UNCHANGED <<clientVars, taskVars, flatVars, harness>>

\* runTests() is called, by the last statement of the script (lines 111-113).
runTests ==
    /\ pc = "script"
    /\ callbacks = <<>>
    /\ Becomes(Continue([RunState EXCEPT !.pc = "running",
                                         !.stack = <<Frame("runTests", 0)>>]))

\* Lines 142-145: the awaited body resolves.
runTestPass ==
    /\ pc = "running"
    /\ callbacks = <<>>
    /\ Last(stack).fn = "runTest"
    /\ LET test == Last(stack).node
           st == [RunState EXCEPT
                     !.results = Append(@, [name |-> nodes[test].name, passed |-> TRUE,
                                            error |-> <<>>]),
                     !.body[test] = "ok"]
       IN  Becomes(Continue(Return(st, test, FALSE)))

\* Lines 146-150: the awaited body rejects with e.  Reading e.message of null
\* or undefined raises a TypeError inside the catch block: runTest rejects, and
\* so does every call that awaits it, up to runTests.
runTestFail(e) ==
    /\ pc = "running"
    /\ callbacks = <<>>
    /\ Last(stack).fn = "runTest"
    /\ LET test == Last(stack).node
           st == [RunState EXCEPT !.body[test] = "threw"]
       IN  IF HasProperties(e)
           THEN Becomes(Continue(Return(
                    [st EXCEPT !.results = Append(@, [name |-> nodes[test].name,
                                                      passed |-> FALSE,
                                                      error |-> ErrorText(e)])],
                    test, TestSignal(test))))
           ELSE Becomes([st EXCEPT !.pc = "rejected", !.stack = <<>>])


\* ------------------------------------------------------------------------
\* The API client (src/src/index.ts)
\* ------------------------------------------------------------------------
\* Strings the model looks into are sequences of characters.
TokenChars == {"a", "="}

\* The non-empty strings over TokenChars of length up to n.  A token is a
\* cookie value: it holds no ";" and no white space.
RECURSIVE StringsUpTo(_)
StringsUpTo(n) ==
    IF n = 0 THEN {}
    ELSE LET shorter == StringsUpTo(n - 1) IN
         { <<c>> : c \in TokenChars } \cup shorter \cup
         { Append(t, c) : t \in shorter, c \in TokenChars }

Tokens == StringsUpTo(MaxTokenLen)
SessionIds == { <<"a">>, <<"=", "a">> }
LessonIds == {7, 8}
Undefined == 0

\* LingqAPI.VERSION (line 131).
VERSION == <<"Web/5.3.46">>

\* The constructor (lines 149-173).
NewClient(languageCode, lessonCode, csrfToken, sessionId) ==
    [languageCode |-> languageCode,
     lessonCode |-> lessonCode,
     csrfToken |-> csrfToken,
     sessionId |-> sessionId,
     commonHeaders |->
        [h \in {"Accept", "Priority", "Sec-CH-UA", "Sec-CH-UA-Mobile", "Sec-CH-UA-Platform",
                "Sec-Fetch-Dest", "Sec-Fetch-Mode", "Sec-Fetch-Site", "X-Lingq-App",
                "Referer", "Referrer-Policy"} |->
            CASE h = "Accept"             -> <<"application/json">>
              [] h = "Priority"           -> <<"u=1, i">>
              [] h = "Sec-CH-UA"          -> <<"\"Google Chrome\";v=\"131\", \"Chromium\";v=\"131\", \"Not_A Brand\";v=\"24\"">>
              [] h = "Sec-CH-UA-Mobile"   -> <<"?0">>
              [] h = "Sec-CH-UA-Platform" -> <<"\"macOS\"">>
              [] h = "Sec-Fetch-Dest"     -> <<"empty">>
              [] h = "Sec-Fetch-Mode"     -> <<"cors">>
              [] h = "Sec-Fetch-Site"     -> <<"same-origin">>
              [] h = "X-Lingq-App"        -> VERSION
              [] h = "Referer"            -> <<"https://www.lingq.com/en/learn/", languageCode,
                                               "/web/editor/", ToString(lessonCode)>>
              [] h = "Referrer-Policy"    -> <<"strict-origin-when-cross-origin">>]]

\* "csrftoken=" and "; wwwlingqcomsa=" character by character.
CsrfCookieName == <<"c", "s", "r", "f", "t", "o", "k", "e", "n">>
SessionCookieName == <<"w", "w", "w", "l", "i", "n", "g", "q", "c", "o", "m", "s", "a">>

\* `csrftoken=${this.csrfToken}; wwwlingqcomsa=${this.sessionId};` (line 177).
CookieHeader(c) ==
    CsrfCookieName \o <<"=">> \o c.csrfToken \o <<";", " ">>
        \o SessionCookieName \o <<"=">> \o c.sessionId \o <<";">>

\* Variant of CsrfHeader: the header carries the session id.
CsrfHeaderSession(c) == c.sessionId

\* The value of the X-CSRFToken header (line 184).
CsrfHeader(c) == c.csrfToken

\* buildHeaders (lines 175-188): a copy of the common headers plus the cookie,
\* the content type of a post and the CSRF header.
buildHeaders(c, isPost, includeCsrf) ==
    LET headers == ("Cookie" :> CookieHeader(c)) @@ c.commonHeaders
        posted == IF isPost
                  THEN ("Content-Type" :> <<"application/json">>) @@ headers
                  ELSE headers
    IN  IF includeCsrf THEN ("X-CSRFToken" :> CsrfHeader(c)) @@ posted ELSE posted

\* What the remote service may answer: the ok flag and the body, which is
\* JSON of the expected shape, JSON of another shape, or not JSON.
Responses == [ok : BOOLEAN, body : {"valid", "invalid", "none"}]

\* Variant of CommonHeadersAfterBuild: buildHeaders writes into the common
\* headers object itself instead of a copy.
CommonHeadersAliased(c, headers) == headers

\* this.commonHeaders after buildHeaders returned `headers`: the spread of
\* line 176 makes a copy, the writes of lines 177-185 go to the copy.
CommonHeadersAfterBuild(c, headers) == c.commonHeaders

\* The flags of a buildHeaders call.
Flags(isPost, includeCsrf) == [isPost |-> isPost, includeCsrf |-> includeCsrf]

\* `arg` is the lessonCode argument of lessonGet, Undefined for a call that
\* has none or leaves it out.
NoRequest == [op |-> "none", arg |-> Undefined, method |-> "", url |-> <<>>, isPost |-> FALSE,
              includeCsrf |-> FALSE, headers |-> <<>>, before |-> Flags(FALSE, FALSE),
              fetches |-> 0]
\* How an operation ends.  `parsed` tells whether it called response.json().
\* `id` is the id of the returned record where the model looks at it
\* (the result of lessonCreate), Undefined elsewhere.
NoOutcome == [kind |-> "none", what |-> "", response |-> [ok |-> FALSE, body |-> "none"],
              parsed |-> FALSE, id |-> Undefined]
Returned(what, r) ==
    [kind |-> "returned", what |-> what, response |-> r, parsed |-> FALSE, id |-> Undefined]
Threw(what, r) ==
    [kind |-> "threw", what |-> what, response |-> r, parsed |-> FALSE, id |-> Undefined]

\* The outcome `out` of an operation whose returned record carries `id`.
WithId(out, id) == IF out.kind = "returned" THEN [out EXCEPT !.id = id] ELSE out

\* Variant of Validated: the parsed body is returned without typia.assert.
ValidatedUnchecked(type, r) ==
    IF r.body = "none"
    THEN [Threw("SyntaxError", r) EXCEPT !.parsed = TRUE]
    ELSE [Returned(type, r) EXCEPT !.parsed = TRUE]

\* `await response.json()` followed by typia.assert<T>: a body that is not
\* JSON makes json() reject, a body of another shape makes typia.assert throw.
Validated(type, r) ==
    CASE r.body = "none"    -> [Threw("SyntaxError", r) EXCEPT !.parsed = TRUE]
      [] r.body = "invalid" -> [Threw("TypeGuardError", r) EXCEPT !.parsed = TRUE]
      [] OTHER              -> [Returned(type, r) EXCEPT !.parsed = TRUE]

\* Variant of Checked: the body is read and validated before the ok flag is
\* looked at.
CheckedAfterParse(type, message, r) ==
    IF Validated(type, r).kind = "threw" THEN Validated(type, r)
    ELSE IF ~r.ok THEN [Threw(message, r) EXCEPT !.parsed = TRUE]
    ELSE Validated(type, r)

\* Variant of Checked: the ok flag is not looked at.
Unchecked(type, message, r) == Validated(type, r)

\* `if (!response.ok) throw new Error(message)` before the body is read.
Checked(type, message, r) == IF ~r.ok THEN Threw(message, r) ELSE Validated(type, r)

\* _baseURL (lines 435-437) and the other URL templates.
BaseURL(c) == <<"https://www.lingq.com/api/v3/", c.languageCode, "/lessons/", ToString(c.lessonCode)>>
SentencesURL(c) == BaseURL(c) \o <<"/sentences/">>
LessonStatsURL(c) ==
    <<"https://www.lingq.com//api/v2/", c.languageCode, "/lesson-stats/", ToString(c.lessonCode), "/">>

\* The number of times an operation that received response r calls fetch:
\* every method has one `await fetch(...)` and no loop or catch around it.
Fetches(r) == 1

\* What one operation does to the client: the request it sends with fetch
\* and how it ends.
Fetch(op, arg, method, url, isPost, includeCsrf, c, out) ==
    /\ client' = [c EXCEPT !.commonHeaders =
                      CommonHeadersAfterBuild(c, buildHeaders(c, isPost, includeCsrf))]
    /\ request' = [op |-> op, arg |-> arg, method |-> method, url |-> url, isPost |-> isPost,
                   includeCsrf |-> includeCsrf,
                   headers |-> buildHeaders(c, isPost, includeCsrf),
                   before |-> Flags(request.isPost, request.includeCsrf),
                   fetches |-> Fetches(out.response)]
    /\ outcome' = out
    /\ calls' = calls + 1
    /\ UNCHANGED given

\* One operation invoked on the client on its own.
Call(op, arg, method, url, isPost, includeCsrf, c, out) ==
    /\ calls < MaxCalls
    /\ Fetch(op, arg, method, url, isPost, includeCsrf, c, out)
    /\ UNCHANGED <<runnerVars, taskVars, flatVars, harness>>

\* Variant of Override: the argument of lessonGet is ignored.
OverrideIgnored(current, lessonCode) == current

\* `lessonCode ?? this.lessonCode` (line 193).
Override(current, lessonCode) == IF lessonCode = Undefined THEN current ELSE lessonCode

\* lessonGet (lines 192-207).
lessonGet(lessonCode, r) ==
    LET c == [client EXCEPT !.lessonCode = Override(@, lessonCode)] IN
    Call("lessonGet", lessonCode, "GET", BaseURL(c) \o <<"/editor/">>, FALSE, FALSE, c,
         Checked("Lesson", "Lesson doesn't exist.", r))

\* lessonCreate (lines 215-239); id is the id of the lesson the service
\* created.  The client is left as it is: this.lessonCode is not assigned.
lessonCreate(r, id) ==
    Call("lessonCreate", Undefined, "POST",
         <<"https://www.lingq.com/api/v3/", client.languageCode, "/lessons/import/">>,
         TRUE, TRUE, client,
         WithId(Checked("LessonCreateReturnType", "Failed to create lesson", r), id))

\* lessonDelete (lines 240-246).
lessonDelete(r) ==
    Call("lessonDelete", Undefined, "DELETE", <<"https://www.lingq.com/api/v2/contexts/7198304/lesson/">>,
         TRUE, TRUE, client, Returned("Response", r))

\* lessonStatsReadTimeIncrement (lines 253-270).
lessonStatsReadTimeIncrement(r) ==
    Call("lessonStatsReadTimeIncrement", Undefined, "PATCH", LessonStatsURL(client), TRUE, TRUE, client,
         Checked("LessonStats", "Failed to increment read time", r))

\* lessonStatsListenTimeIncrement (lines 277-294).
lessonStatsListenTimeIncrement(r) ==
    Call("lessonStatsListenTimeIncrement", Undefined, "PATCH", LessonStatsURL(client), TRUE, TRUE, client,
         Checked("LessonStats", "Failed to increment read time", r))

\* updateCardStatus (lines 301-317).
updateCardStatus(r) ==
    Call("updateCardStatus", Undefined, "PATCH",
         <<"https://www.lingq.com/api/v3/", client.languageCode, "/cards/", "cardId", "/">>,
         TRUE, TRUE, client, Checked("LessonCard", "Failed to update card status", r))

\* lessonBookmarkCreate (lines 328-343).
lessonBookmarkCreate(r) ==
    Call("lessonBookmarkCreate", Undefined, "POST", BaseURL(client) \o <<"/bookmark/">>, TRUE, TRUE, client,
         IF ~r.ok THEN Threw("Failed to create bookmark", r) ELSE Returned("true", r))

\* lessonWordsGet (lines 345-359).
lessonWordsGet(r) ==
    Call("lessonWordsGet", Undefined, "GET", BaseURL(client) \o <<"/words/">>, FALSE, FALSE, client,
         Validated("LessonWordsGetReturnValue", r))

\* sentenceTimestampUpdate (lines 363-377), through _postSentences (441-452).
sentenceTimestampUpdate(r) ==
    Call("sentenceTimestampUpdate", Undefined, "POST", SentencesURL(client), TRUE, TRUE, client,
         Checked("Sentence", "Failed to update sentence timestamp", r))

\* sentenceTextUpdate (lines 384-391).
sentenceTextUpdate(r) ==
    Call("sentenceTextUpdate", Undefined, "POST", SentencesURL(client), TRUE, TRUE, client,
         Returned("Response", r))

\* sentenceCreate (lines 400-418).
sentenceCreate(r) ==
    Call("sentenceCreate", Undefined, "POST", SentencesURL(client), TRUE, TRUE, client,
         Checked("Sentence", "Failed to create sentence", r))

\* sentenceDelete (lines 420-425).
sentenceDelete(r) ==
    Call("sentenceDelete", Undefined, "POST", SentencesURL(client), TRUE, TRUE, client,
         Returned("Response", r))

\* sentenceBreak (lines 426-431).
sentenceBreak(r) ==
    Call("sentenceBreak", Undefined, "POST", SentencesURL(client), TRUE, TRUE, client,
         Returned("Response", r))

\* getTTSSpeech (lines 467-486).
getTTSSpeech(r) ==
    Call("getTTSSpeech", Undefined, "GET", <<"https://www.lingq.com/api/v2/tts/">>, FALSE, FALSE, client,
         Checked("TTSReturnType", "Failed to get TTS speech", r))

\* ------------------------------------------------------------------------
\* Two tasks that overlap at the awaits of the client's methods
\* ------------------------------------------------------------------------
Tasks == {1, 2}

\* Variant of InstanceOf: both tasks get the same instance whatever was asked.
InstanceOfSame(sharing, t) == 1

\* The instance task t works with: the one instance when the tasks share it,
\* its own `new LingqAPI(...)` otherwise.
InstanceOf(sharing, t) == IF sharing THEN 1 ELSE t

\* The responses the tasks receive: a success with a body of the expected
\* shape, or a failure without a JSON body.
TaskResponses == { [ok |-> TRUE, body |-> "valid"], [ok |-> FALSE, body |-> "none"] }

\* What a task is suspended in: the method and its argument.
NotSuspended == [op |-> "none", arg |-> Undefined]

NoTaskRequest == [op |-> "none", arg |-> Undefined, url |-> <<>>, want |-> Undefined,
                  during |-> [u \in Tasks |-> NotSuspended]]

\* A method of the client from its call to its `await fetch(...)`: the URL is
\* built from the fields of instance c, the request is sent and the task is
\* suspended.  `want` is the lesson the task selected last, `during` the
\* call each task was suspended in when this one was made.
Send(t, op, arg, url, c, want) ==
    /\ task[t].pc = "idle"
    /\ task[t].count < MaxTaskCalls
    /\ instances' = [instances EXCEPT ![InstanceOf(shared, t)] = c]
    /\ task' = [task EXCEPT ![t] =
                    [@ EXCEPT !.pc = "awaiting",
                              !.count = @ + 1,
                              !.selected = want,
                              !.outcome = NoOutcome,
                              !.request =
                                  [op |-> op, arg |-> arg, url |-> url, want |-> want,
                                   during |-> [u \in Tasks |->
                                                  IF task[u].pc = "awaiting"
                                                  THEN [op |-> task[u].request.op,
                                                        arg |-> task[u].request.arg]
                                                  ELSE NotSuspended]]]]
    /\ UNCHANGED shared
    /\ UNCHANGED <<runnerVars, clientVars, flatVars, harness>>

\* lessonGet up to its await (lines 192-198).
lessonGetCall(t, lessonCode) ==
    LET c == [instances[InstanceOf(shared, t)] EXCEPT !.lessonCode = Override(@, lessonCode)] IN
    Send(t, "lessonGet", lessonCode, BaseURL(c) \o <<"/editor/">>, c,
         Override(task[t].selected, lessonCode))

\* lessonWordsGet up to its await (lines 345-352).
lessonWordsGetCall(t) ==
    LET c == instances[InstanceOf(shared, t)] IN
    Send(t, "lessonWordsGet", Undefined, BaseURL(c) \o <<"/words/">>, c, task[t].selected)

\* sentenceBreak up to the await of _postSentences (lines 426-431, 441-449).
sentenceBreakCall(t) ==
    LET c == instances[InstanceOf(shared, t)] IN
    Send(t, "sentenceBreak", Undefined, SentencesURL(c), c, task[t].selected)

\* The fetch of a suspended task resolves with response r and the method
\* runs to its end (lines 199-206, 354-358, 451).
fetchResolves(t, r) ==
    /\ task[t].pc = "awaiting"
    /\ task' = [task EXCEPT ![t] =
                    [@ EXCEPT !.pc = "idle",
                              !.outcome =
                                  CASE task[t].request.op = "lessonGet" ->
                                           Checked("Lesson", "Lesson doesn't exist.", r)
                                    [] task[t].request.op = "lessonWordsGet" ->
                                           Validated("LessonWordsGetReturnValue", r)
                                    [] OTHER -> Returned("Response", r)]]
    /\ UNCHANGED <<shared, instances>>
    /\ UNCHANGED <<runnerVars, clientVars, flatVars, harness>>

\* No task takes part.
TasksIdle ==
    /\ shared = FALSE
    /\ instances = <<>>
    /\ task = <<>>

\* ------------------------------------------------------------------------
\* The flat queue runner (src/src/testinglib.ts)
\* ------------------------------------------------------------------------
\* The module state at load (lines 6-8).  pc is "script", "running" (the fn of
\* `current` is awaited), "done" (runTests resolved) or "rejected".  created,
\* started and threw are the history of the run: the names in the order of
\* their createTest calls, the names whose body was invoked, the names
\* whose body rejected.
flatLoaded ==
    [tests |-> <<>>, results |-> <<>>, globalFailure |-> FALSE,
     pc |-> "script", current |-> <<>>, summary |-> <<>>,
     created |-> <<>>, started |-> <<>>, threw |-> <<>>]

\* createTest (lines 25-41): the wrapper is pushed at the end of the queue.
flatPush(f, name) ==
    [f EXCEPT !.tests = Append(@, name), !.created = Append(@, name)]

\* Variant of flatShift: the test registered last is taken.
flatShiftLast(ts) == [currentTest |-> Last(ts), tests |-> Front(ts)]

\* `tests.shift()` (line 49).
flatShift(ts) == [currentTest |-> Head(ts), tests |-> Tail(ts)]

\* The entry of lines 54-58.
flatSkipped(name) ==
    [name |-> name, passed |-> FALSE, error |-> <<"Skipped due to previous failure">>]

\* The loop of runTests (lines 48-62) up to its next await, and the summary
\* (lines 64-79) when the queue is empty.
RECURSIVE flatLoop(_)
flatLoop(f) ==
    IF Len(f.tests) = 0
    THEN [f EXCEPT !.summary = Append(@, printSummary(f.results)),
                   !.pc = "done",
                   !.current = <<>>]
    ELSE LET s == flatShift(f.tests) IN
         IF f.globalFailure
         THEN flatLoop([f EXCEPT !.tests = s.tests,
                                 !.results = Append(@, flatSkipped(s.currentTest))])
         ELSE [f EXCEPT !.tests = s.tests,
                        !.pc = "running",
                        !.current = <<s.currentTest>>,
                        !.started = Append(@, s.currentTest)]

\* testFn resolved (lines 31-33), fn resolves and the loop goes on.
flatResolve(f) ==
    flatLoop([f EXCEPT !.results = Append(@, [name |-> f.current[1], passed |-> TRUE,
                                              error |-> <<>>])])

\* testFn rejected with e (lines 34-38).  Reading e.message of null or
\* undefined (line 35) raises a TypeError inside the catch block: fn rejects
\* and so does runTests, at its line 61.
flatReject(f, e) ==
    LET g == [f EXCEPT !.threw = Append(@, f.current[1])] IN
    IF HasProperties(e)
    THEN flatLoop([g EXCEPT !.results = Append(@, [name |-> f.current[1], passed |-> FALSE,
                                                   error |-> ErrorText(e)]),
                            !.globalFailure = TRUE])
    ELSE [g EXCEPT !.pc = "rejected", !.current = <<>>]

\* createTest is called by the script or by the body that is running; the
\* tests are named by their creation number.
flatCreateTest ==
    /\ flat.pc \in {"script", "running"}
    /\ Len(flat.created) < MaxTests
    /\ flat' = flatPush(flat, Len(flat.created) + 1)
    /\ UNCHANGED <<runnerVars, clientVars, taskVars, lessonId, harness>>

\* runTests() is called by the last statement of the script.
flatRunTests ==
    /\ flat.pc = "script"
    /\ flat' = flatLoop(flat)
    /\ UNCHANGED <<runnerVars, clientVars, taskVars, lessonId, harness>>

\* The body of the current test resolves.
flatFnPass ==
    /\ flat.pc = "running"
    /\ flat' = flatResolve(flat)
    /\ UNCHANGED <<runnerVars, clientVars, taskVars, lessonId, harness>>

\* The body of the current test rejects with e.
flatFnFail(e) ==
    /\ flat.pc = "running"
    /\ flat' = flatReject(flat, e)
    /\ UNCHANGED <<runnerVars, clientVars, taskVars, lessonId, harness>>

\* The flat runner takes no part.
FlatIdle == flat = <<>> /\ lessonId = Undefined

\* No test script of the grouped runner is loaded.
HarnessIdle == harness = <<>>

\* ------------------------------------------------------------------------
\* The test script of the flat runner (src/src/test.ts, lines 100-157)
\* ------------------------------------------------------------------------
\* new Error(text)
Err(text) == [kind |-> "Error", text |-> text]

\* The body of test `name` is the one being awaited.
Running(name) == flat.pc = "running" /\ flat.current = <<name>>

\* The top level of the script (lines 106 and 157): 'Lesson Create' is
\* registered and runTests(tests) is called.
scriptTop ==
    /\ flat.pc = "script"
    /\ flat' = flatLoop(flatPush(flat, "Lesson Create"))
    /\ UNCHANGED lessonId
    /\ UNCHANGED <<runnerVars, clientVars, taskVars, harness>>

\* The body of 'Lesson Create' (lines 106-156): lessonCreate throws, or it
\* returns the record with `id` and 'Lesson Get' is registered.
LessonCreateBody(r, id) ==
    LET out == WithId(Checked("LessonCreateReturnType", "Failed to create lesson", r), id) IN
    /\ Running("Lesson Create")
    /\ Fetch("lessonCreate", Undefined, "POST",
             <<"https://www.lingq.com/api/v3/", client.languageCode, "/lessons/import/">>,
             TRUE, TRUE, client, out)
    /\ IF out.kind = "threw"
       THEN /\ flat' = flatReject(flat, Err(out.what))
            /\ UNCHANGED lessonId
       ELSE /\ flat' = flatResolve(flatPush(flat, "Lesson Get"))
            /\ lessonId' = out.id
    /\ UNCHANGED <<runnerVars, taskVars, harness>>

\* The body of 'Lesson Get' (lines 129-155): lessonGet(lessonId) throws, or
\* 'Lesson Delete' is registered.
LessonGetBody(r) ==
    LET c == [client EXCEPT !.lessonCode = Override(@, lessonId)]
        out == Checked("Lesson", "Lesson doesn't exist.", r)
    IN  /\ Running("Lesson Get")
        /\ Fetch("lessonGet", lessonId, "GET", BaseURL(c) \o <<"/editor/">>, FALSE, FALSE, c, out)
        /\ flat' = IF out.kind = "threw"
                   THEN flatReject(flat, Err(out.what))
                   ELSE flatResolve(flatPush(flat, "Lesson Delete"))
        /\ UNCHANGED lessonId
        /\ UNCHANGED <<runnerVars, taskVars, harness>>

\* The body of 'Lesson Delete' (lines 134-154): it throws for a response that
\* is not ok, otherwise 'Lesson Get After Delete' is registered.
LessonDeleteBody(r) ==
    /\ Running("Lesson Delete")
    /\ Fetch("lessonDelete", lessonId, "DELETE",
             <<"https://www.lingq.com/api/v2/contexts/7198304/lesson/">>,
             TRUE, TRUE, client, Returned("Response", r))
    /\ flat' = IF ~r.ok
               THEN flatReject(flat, Err("Failed to delete lesson"))
               ELSE flatResolve(flatPush(flat, "Lesson Get After Delete"))
    /\ UNCHANGED lessonId
    /\ UNCHANGED <<runnerVars, taskVars, harness>>

\* What the try block of 'Lesson Get After Delete' throws (lines 147-149):
\* the error of lessonGet, or its own error when lessonGet returned.
TryThrows(out) ==
    IF out.kind = "threw" THEN Err(out.what) ELSE Err("Lesson was not deleted")

\* The catch block of lines 150-152 logs the error e and throws nothing: the
\* body resolves whatever the try block threw.
CatchLogs(f, e) == flatResolve(f)

\* The body of 'Lesson Get After Delete' (lines 146-153).
LessonGetAfterDeleteBody(r) ==
    LET c == [client EXCEPT !.lessonCode = Override(@, lessonId)]
        out == Checked("Lesson", "Lesson doesn't exist.", r)
    IN  /\ Running("Lesson Get After Delete")
        /\ Fetch("lessonGet", lessonId, "GET", BaseURL(c) \o <<"/editor/">>, FALSE, FALSE, c, out)
        /\ flat' = CatchLogs(flat, TryThrows(out))
        /\ UNCHANGED lessonId
        /\ UNCHANGED <<runnerVars, taskVars, harness>>

\* ------------------------------------------------------------------------
\* The test script of the grouped runner (src/test/test.ts)
\* ------------------------------------------------------------------------
\* One call the script makes to the runner's registration functions:
\* createTest(name, fn, blocking), createTestGroup(name, blocking, callback),
\* and the return of a group's callback.
CreateTestOp(name, blocking) == [op |-> "test", name |-> name, blocking |-> blocking]
CreateGroupOp(name, blocking) == [op |-> "group", name |-> name, blocking |-> blocking]
CallbackReturnOp == [op |-> "return", name |-> "", blocking |-> FALSE]

\* createTest's third parameter when the script leaves it out
\* (src/test/testinglib.ts, line 64: `blocking: boolean = true`).
DefaultBlocking == TRUE

\* The registrations of the script's top level (lines 25-26 and 133).
TopLevel ==
    << CreateGroupOp("Lesson Operations", TRUE),
       CreateTestOp("Lesson Create", DefaultBlocking),
       CallbackReturnOp >>

\* The registrations the body of 'Lesson Create' makes once lessonCreate has
\* returned (lines 45-131), in the order of the text.
AfterCreate ==
    << CreateGroupOp("Lesson Modification Tests", FALSE),
         CreateTestOp("Lesson Get", DefaultBlocking),
         CreateTestOp("Lesson Words Get", DefaultBlocking),
         CreateGroupOp("Sentence Operations", FALSE),
           CreateTestOp("Sentence Create", TRUE),
           CreateGroupOp("Sentence Modification Tests", FALSE),
             CreateTestOp("Sentence Text Update", DefaultBlocking),
             CreateTestOp("Sentence Timestamp Update", DefaultBlocking),
             CreateTestOp("Sentence Break", DefaultBlocking),
           CallbackReturnOp,
           CreateTestOp("Sentence Delete", TRUE),
         CallbackReturnOp,
         CreateTestOp("Lesson Delete", DefaultBlocking),
       CallbackReturnOp >>

\* The registration the body of 'Lesson Delete' makes (lines 119-129).
AfterDelete == << CreateTestOp("Lesson Get After Delete", DefaultBlocking) >>

\* The cases the script can create, by creation number.
HarnessIds ==
    1..Len(SelectSeq(TopLevel \o AfterCreate \o AfterDelete, LAMBDA o : o.op # "return"))

\* How the body of a test ends: its promise resolves, or rejects with e.
Resolves == [kind |-> "resolve", e |-> Err("")]
Rejects(e) == [kind |-> "reject", e |-> e]

\* The script before its first statement ran.
HarnessLoaded == [todo |-> TopLevel, ran |-> "", settle |-> Resolves]

\* The test whose body the runner is awaiting, "" when there is none.
ActiveTest ==
    IF pc = "running" /\ Last(stack).fn = "runTest" THEN nodes[Last(stack).node].name ELSE ""

\* `response.ok` of the value a client method returned to the test: the flag
\* of a Response; a parsed record has no such property, the read gives
\* undefined.
OkOf(out) == out.what = "Response" /\ out.response.ok

\* Whether `response.json` of the returned value is a function: it is for a
\* Response, and a parsed record has no such property.
HasJson(out) == out.what = "Response"

\* An awaited client call that threw rejects the body with the same error.
Propagates(out) == Rejects(Err(out.what))

\* `const x = await lingQ.method(...)` and nothing after it that can throw.
AwaitOnly(out) == IF out.kind = "threw" THEN Propagates(out) ELSE Resolves

\* `const response = await lingQ.method(...); if (!response.ok) throw new
\* Error(message)`.
ThrowUnlessOk(out, message) ==
    IF out.kind = "threw" THEN Propagates(out)
    ELSE IF ~OkOf(out) THEN Rejects(Err(message))
    ELSE Resolves

\* Lines 71-76: `await response.json()` comes before the ok check; calling a
\* property that is undefined raises a TypeError.
JsonThenThrowUnlessOk(out, message) ==
    IF out.kind = "threw" THEN Propagates(out)
    ELSE IF ~HasJson(out) THEN Rejects(Err("response.json is not a function"))
    ELSE IF ~OkOf(out) THEN Rejects(Err(message))
    ELSE Resolves

\* One statement of the script that registers a test (createTest, lines 64-71
\* of src/test/testinglib.ts, with the name the script gives).
harnessCreateTest ==
    /\ harness.todo # <<>>
    /\ Head(harness.todo).op = "test"
    /\ CanRegister
    /\ Register(Len(nodes) + 1,
                [NewCase("test", Len(nodes) + 1, Head(harness.todo).blocking)
                    EXCEPT !.name = Head(harness.todo).name])
    /\ createdBy' = CreatedBy(Len(nodes) + 1)
    /\ harness' = [harness EXCEPT !.todo = Tail(@)]
    /\ UNCHANGED <<groupStack, results, pc, stack, callbacks, summary,
                   started, body, signal, skipBy, entered>>
    /\ UNCHANGED <<clientVars, taskVars, flatVars>>

\* One statement of the script that opens a group (createTestGroup up to the
\* call of its callback, lines 90-100 of src/test/testinglib.ts).
harnessCreateTestGroup ==
    /\ harness.todo # <<>>
    /\ Head(harness.todo).op = "group"
    /\ CanRegister
    /\ Register(Len(nodes) + 1,
                [NewCase("group", Len(nodes) + 1, Head(harness.todo).blocking)
                    EXCEPT !.name = Head(harness.todo).name])
    /\ groupStack' = Append(groupStack, Len(nodes) + 1)
    /\ callbacks' = Append(callbacks, [group |-> Len(nodes) + 1, depth |-> Len(groupStack)])
    /\ createdBy' = CreatedBy(Len(nodes) + 1)
    /\ harness' = [harness EXCEPT !.todo = Tail(@)]
    /\ UNCHANGED <<results, pc, stack, summary, started, body, signal, skipBy, entered>>
    /\ UNCHANGED <<clientVars, taskVars, flatVars>>

\* The callback of a group of the script returns (lines 100-101 of
\* src/test/testinglib.ts).
harnessCreateTestGroupReturn ==
    /\ harness.todo # <<>>
    /\ Head(harness.todo).op = "return"
    /\ CanRegister
    /\ Len(callbacks) > 0
    /\ callbacks' = Front(callbacks)
    /\ groupStack' = PopGroup(groupStack)
    /\ harness' = [harness EXCEPT !.todo = Tail(@)]
    /\ UNCHANGED <<nodes, rootTests, results, pc, stack, summary,
                   started, body, signal, skipBy, entered, createdBy>>
    /\ UNCHANGED <<clientVars, taskVars, flatVars>>

\* The last statement of the script (line 136).
harnessRunTests ==
    /\ harness.todo = <<>>
    /\ runTests

\* The body of the running test ran to its end or to its throw: its promise
\* settles and runTest goes on (lines 142-150 of src/test/testinglib.ts).
harnessBodySettles ==
    /\ harness.todo = <<>>
    /\ ActiveTest # ""
    /\ harness.ran = ActiveTest
    /\ IF harness.settle.kind = "resolve"
       THEN runTestPass
       ELSE runTestFail(harness.settle.e)

\* The body of test `name` runs from its start: it makes its one call of the
\* client, which ends in `out`; `registers` are the registrations it goes on
\* to make and `settle` is how it ends after them.
TestBody(name, out, registers, settle) ==
    /\ ActiveTest = name
    /\ harness.ran # name
    /\ harness' = [todo |-> registers, ran |-> name, settle |-> settle]
    /\ UNCHANGED <<runnerVars, taskVars, flat>>

\* 'Lesson Create' (lines 26-132): lessonCreate throws, or it returns the
\* record whose id the closures created next capture as lessonId.
LessonCreateTest(r, id) ==
    LET out == WithId(Checked("LessonCreateReturnType", "Failed to create lesson", r), id) IN
    /\ Fetch("lessonCreate", Undefined, "POST",
             <<"https://www.lingq.com/api/v3/", client.languageCode, "/lessons/import/">>,
             TRUE, TRUE, client, out)
    /\ TestBody("Lesson Create", out,
                IF out.kind = "threw" THEN <<>> ELSE AfterCreate, AwaitOnly(out))
    /\ lessonId' = IF out.kind = "threw" THEN lessonId ELSE out.id

\* 'Lesson Get' (lines 48-51).
LessonGetTest(r) ==
    LET c == [client EXCEPT !.lessonCode = Override(@, lessonId)]
        out == Checked("Lesson", "Lesson doesn't exist.", r)
    IN  /\ Fetch("lessonGet", lessonId, "GET", BaseURL(c) \o <<"/editor/">>, FALSE, FALSE, c, out)
        /\ TestBody("Lesson Get", out, <<>>, AwaitOnly(out))
        /\ UNCHANGED lessonId

\* 'Lesson Words Get' (lines 53-66): a value lessonWordsGet returned passed
\* typia.assert, so it has `cards` and `words` and the test's own check of
\* lines 55-64 does not throw.
LessonWordsGetTest(r) ==
    LET out == Validated("LessonWordsGetReturnValue", r) IN
    /\ Fetch("lessonWordsGet", Undefined, "GET", BaseURL(client) \o <<"/words/">>,
             FALSE, FALSE, client, out)
    /\ TestBody("Lesson Words Get", out, <<>>, AwaitOnly(out))
    /\ UNCHANGED lessonId

\* 'Sentence Create' (lines 70-78).
SentenceCreateTest(r) ==
    LET out == Checked("Sentence", "Failed to create sentence", r) IN
    /\ Fetch("sentenceCreate", Undefined, "POST", SentencesURL(client), TRUE, TRUE, client, out)
    /\ TestBody("Sentence Create", out, <<>>,
                JsonThenThrowUnlessOk(out, "Sentence creation failed"))
    /\ UNCHANGED lessonId

\* 'Sentence Text Update' (lines 80-86).
SentenceTextUpdateTest(r) ==
    LET out == Returned("Response", r) IN
    /\ Fetch("sentenceTextUpdate", Undefined, "POST", SentencesURL(client), TRUE, TRUE, client, out)
    /\ TestBody("Sentence Text Update", out, <<>>,
                ThrowUnlessOk(out, "Sentence text update failed"))
    /\ UNCHANGED lessonId

\* 'Sentence Timestamp Update' (lines 88-93).
SentenceTimestampUpdateTest(r) ==
    LET out == Checked("Sentence", "Failed to update sentence timestamp", r) IN
    /\ Fetch("sentenceTimestampUpdate", Undefined, "POST", SentencesURL(client),
             TRUE, TRUE, client, out)
    /\ TestBody("Sentence Timestamp Update", out, <<>>,
                ThrowUnlessOk(out, "Sentence timestamp update failed"))
    /\ UNCHANGED lessonId

\* 'Sentence Break' (lines 95-101).
SentenceBreakTest(r) ==
    LET out == Returned("Response", r) IN
    /\ Fetch("sentenceBreak", Undefined, "POST", SentencesURL(client), TRUE, TRUE, client, out)
    /\ TestBody("Sentence Break", out, <<>>, ThrowUnlessOk(out, "Sentence break failed"))
    /\ UNCHANGED lessonId

\* 'Sentence Delete' (lines 104-109).
SentenceDeleteTest(r) ==
    LET out == Returned("Response", r) IN
    /\ Fetch("sentenceDelete", Undefined, "POST", SentencesURL(client), TRUE, TRUE, client, out)
    /\ TestBody("Sentence Delete", out, <<>>, ThrowUnlessOk(out, "Sentence delete failed"))
    /\ UNCHANGED lessonId

\* Variant of RegistersAfterDelete: 'Lesson Get After Delete' is created
\* before the ok flag of the delete response is looked at.
RegistersAfterDeleteUnchecked(out) == AfterDelete

\* Lines 115-119: createTest('Lesson Get After Delete', ...) comes after the
\* throw for a response that is not ok.
RegistersAfterDelete(out) == IF OkOf(out) THEN AfterDelete ELSE <<>>

\* 'Lesson Delete' (lines 113-130).
LessonDeleteTest(r) ==
    LET out == Returned("Response", r) IN
    /\ Fetch("lessonDelete", lessonId, "DELETE",
             <<"https://www.lingq.com/api/v2/contexts/7198304/lesson/">>,
             TRUE, TRUE, client, out)
    /\ TestBody("Lesson Delete", out, RegistersAfterDelete(out),
                ThrowUnlessOk(out, "Failed to delete lesson"))
    /\ UNCHANGED lessonId

\* 'Lesson Get After Delete' (lines 119-129): the catch block logs whatever
\* the try block threw, lessonGet's error or the test's own, and the body
\* resolves.
LessonGetAfterDeleteTest(r) ==
    LET c == [client EXCEPT !.lessonCode = Override(@, lessonId)]
        out == Checked("Lesson", "Lesson doesn't exist.", r)
    IN  /\ Fetch("lessonGet", lessonId, "GET", BaseURL(c) \o <<"/editor/">>, FALSE, FALSE, c, out)
        /\ TestBody("Lesson Get After Delete", out, <<>>, Resolves)
        /\ UNCHANGED lessonId

\* ------------------------------------------------------------------------
\* Specification of the client
\* ------------------------------------------------------------------------
\* No test is registered or run in the client's specification.
RunnerIdle ==
    /\ nodes = <<>>
    /\ rootTests = <<>>
    /\ groupStack = <<>>
    /\ results = <<>>
    /\ pc = "script"
    /\ stack = <<>>
    /\ callbacks = <<>>
    /\ summary = <<>>
    /\ started = <<>>
    /\ body = [n \in NodeIds |-> "idle"]
    /\ signal = [n \in NodeIds |-> "none"]
    /\ skipBy = [n \in NodeIds |-> 0]
    /\ entered = {}
    /\ createdBy = <<>>

\* The state after `new LingqAPI(languageCode, lessonCode, csrfToken, sessionId)`.
Constructed ==
    /\ \E lessonCode \in LessonIds, csrfToken \in Tokens, sessionId \in SessionIds :
        /\ given = [languageCode |-> "he", lessonCode |-> lessonCode,
                    csrfToken |-> csrfToken, sessionId |-> sessionId]
        /\ client = NewClient("he", lessonCode, csrfToken, sessionId)
    /\ request = NoRequest
    /\ outcome = NoOutcome
    /\ calls = 0

ClientInit ==
    /\ RunnerIdle
    /\ TasksIdle
    /\ FlatIdle
    /\ HarnessIdle
    /\ Constructed

ClientNext ==
    \E r \in Responses :
        \/ \E lessonCode \in LessonIds \cup {Undefined} : lessonGet(lessonCode, r)
        \/ \E id \in LessonIds : lessonCreate(r, id)
        \/ lessonDelete(r)
        \/ lessonStatsReadTimeIncrement(r)
        \/ lessonStatsListenTimeIncrement(r)
        \/ updateCardStatus(r)
        \/ lessonBookmarkCreate(r)
        \/ lessonWordsGet(r)
        \/ sentenceTimestampUpdate(r)
        \/ sentenceTextUpdate(r)
        \/ sentenceCreate(r)
        \/ sentenceDelete(r)
        \/ sentenceBreak(r)
        \/ getTTSSpeech(r)

ClientSpec == ClientInit /\ [][ClientNext]_vars

\* ------------------------------------------------------------------------
\* Specification of the grouped runner
\* ------------------------------------------------------------------------
\* No client takes part in the runner's specification.
ClientIdle ==
    /\ client = <<>>
    /\ request = NoRequest
    /\ outcome = NoOutcome
    /\ calls = 0
    /\ given = <<>>

RunnerInit ==
    /\ nodes = <<>>
    /\ rootTests = <<>>
    /\ groupStack = <<>>
    /\ results = <<>>
    /\ pc = "script"
    /\ stack = <<>>
    /\ callbacks = <<>>
    /\ summary = <<>>
    /\ started = <<>>
    /\ body = [n \in NodeIds |-> "idle"]
    /\ signal = [n \in NodeIds |-> "none"]
    /\ skipBy = [n \in NodeIds |-> 0]
    /\ entered = {}
    /\ createdBy = <<>>

Init == RunnerInit /\ ClientIdle /\ TasksIdle /\ FlatIdle /\ HarnessIdle

Next ==
    \/ \E blocking \in BOOLEAN : createTest(blocking)
    \/ \E blocking \in BOOLEAN : createTestGroup(blocking)
    \/ createTestGroupReturn
    \/ runTests
    \/ runTestPass
    \/ \E e \in Thrown : runTestFail(e)

Spec == Init /\ [][Next]_vars

\* ------------------------------------------------------------------------
\* Specification of the grouped runner with the creator of every case
\* ------------------------------------------------------------------------
RunTimeInit ==
    /\ nodes = <<>>
    /\ rootTests = <<>>
    /\ groupStack = <<>>
    /\ results = <<>>
    /\ pc = "script"
    /\ stack = <<>>
    /\ callbacks = <<>>
    /\ summary = <<>>
    /\ started = <<>>
    /\ body = [n \in NodeIds |-> "idle"]
    /\ signal = [n \in NodeIds |-> "none"]
    /\ skipBy = [n \in NodeIds |-> 0]
    /\ entered = {}
    /\ createdBy = [n \in NodeIds |-> 0]
    /\ ClientIdle
    /\ TasksIdle
    /\ FlatIdle
    /\ HarnessIdle

RunTimeSpec == RunTimeInit /\ [][Next]_vars

\* ------------------------------------------------------------------------
\* Specifications of the runners in which every test body completes
\* ------------------------------------------------------------------------
\* The body that is awaited resolves or rejects.
BodySettles == runTestPass \/ \E e \in Thrown : runTestFail(e)

\* The grouped runner when every body that is awaited eventually settles.
\* A testsCallback is synchronous code of a body: it returns before the body
\* can settle.  The number of cases is finite by NodeLimit.
LiveSpec ==
    Init /\ [][Next]_vars /\ WF_vars(createTestGroupReturn) /\ WF_vars(BodySettles)

\* WF_vars(BodySettles) written out, ENABLED <<BodySettles>>_vars being
\* CanSettle and a <<BodySettles>>_vars step being one that ends the active body.
CanSettle == pc = "running" /\ callbacks = <<>> /\ Last(stack).fn = "runTest"
Settled == \E n \in NodeIds : body[n] = "active" /\ body'[n] # "active"
LiveSpecWrittenOut ==
    /\ Init /\ [][Next]_vars
    /\ WF_vars(createTestGroupReturn)
    /\ ([]<>(~CanSettle) \/ []<><<Settled>>_vars)

\* ------------------------------------------------------------------------
\* Specification of the overlapping tasks
\* ------------------------------------------------------------------------
\* The caller made one instance for both tasks or one for each, every
\* instance with a lesson of its own choice, and started the two tasks.
TaskInit ==
    /\ RunnerIdle
    /\ ClientIdle
    /\ FlatIdle
    /\ HarnessIdle
    /\ shared \in BOOLEAN
    /\ \E lesson \in [Tasks -> LessonIds] :
        /\ instances = [i \in {InstanceOf(shared, t) : t \in Tasks} |->
                            NewClient("he", lesson[i], <<"a">>, <<"=", "a">>)]
        /\ task = [t \in Tasks |->
                       [pc |-> "idle", count |-> 0,
                        selected |-> lesson[InstanceOf(shared, t)],
                        request |-> NoTaskRequest, outcome |-> NoOutcome]]

TaskNext ==
    \E t \in Tasks :
        \/ \E lessonCode \in LessonIds \cup {Undefined} : lessonGetCall(t, lessonCode)
        \/ lessonWordsGetCall(t)
        \/ sentenceBreakCall(t)
        \/ \E r \in TaskResponses : fetchResolves(t, r)

TaskSpec == TaskInit /\ [][TaskNext]_vars

\* ------------------------------------------------------------------------
\* Specification of the flat queue runner
\* ------------------------------------------------------------------------
FlatInit ==
    /\ RunnerIdle
    /\ ClientIdle
    /\ TasksIdle
    /\ flat = flatLoaded
    /\ lessonId = Undefined
    /\ HarnessIdle

FlatNext ==
    \/ flatCreateTest
    \/ flatRunTests
    \/ flatFnPass
    \/ \E e \in Thrown : flatFnFail(e)

FlatSpec == FlatInit /\ [][FlatNext]_vars

\* The flat runner when every body that is awaited eventually settles.
flatBodySettles == flatFnPass \/ \E e \in Thrown : flatFnFail(e)

FlatLiveSpec == FlatInit /\ [][FlatNext]_vars /\ WF_vars(flatBodySettles)

\* ------------------------------------------------------------------------
\* Specification of the test script of the flat runner
\* ------------------------------------------------------------------------
\* The script has loaded the runner and constructed its client (lines 16-105).
ScriptInit ==
    /\ RunnerIdle
    /\ TasksIdle
    /\ Constructed
    /\ flat = flatLoaded
    /\ lessonId = Undefined
    /\ HarnessIdle

ScriptNext ==
    \/ scriptTop
    \/ \E r \in Responses :
        \/ \E id \in LessonIds : LessonCreateBody(r, id)
        \/ LessonGetBody(r)
        \/ LessonDeleteBody(r)
        \/ LessonGetAfterDeleteBody(r)

ScriptSpec == ScriptInit /\ [][ScriptNext]_vars

\* ------------------------------------------------------------------------
\* Specification of the test script of the grouped runner
\* ------------------------------------------------------------------------
\* src/test/test.ts has loaded the runner and constructed its client from the
\* configuration (lines 1-23); which tokens the configuration holds makes no
\* difference to the order of the tests, one choice of them is kept.
HarnessInit ==
    /\ nodes = <<>>
    /\ rootTests = <<>>
    /\ groupStack = <<>>
    /\ results = <<>>
    /\ pc = "script"
    /\ stack = <<>>
    /\ callbacks = <<>>
    /\ summary = <<>>
    /\ started = <<>>
    /\ body = [n \in HarnessIds |-> "idle"]
    /\ signal = [n \in HarnessIds |-> "none"]
    /\ skipBy = [n \in HarnessIds |-> 0]
    /\ entered = {}
    /\ createdBy = [n \in HarnessIds |-> 0]
    /\ Constructed
    /\ client.csrfToken = <<"a">>
    /\ client.sessionId = <<"a">>
    /\ TasksIdle
    /\ flat = <<>>
    /\ lessonId = Undefined
    /\ harness = HarnessLoaded

\* The answers of the remote service the harness is run against: a success
\* with a body of the expected shape, a success with a body of another shape,
\* and a failure without a JSON body.
HarnessResponses ==
    { [ok |-> TRUE, body |-> "valid"], [ok |-> TRUE, body |-> "invalid"],
      [ok |-> FALSE, body |-> "none"] }

HarnessNext ==
    \/ harnessCreateTest
    \/ harnessCreateTestGroup
    \/ harnessCreateTestGroupReturn
    \/ harnessRunTests
    \/ harnessBodySettles
    \/ \E r \in HarnessResponses :
        \/ \E id \in LessonIds : LessonCreateTest(r, id)
        \/ LessonGetTest(r)
        \/ LessonWordsGetTest(r)
        \/ SentenceCreateTest(r)
        \/ SentenceTextUpdateTest(r)
        \/ SentenceTimestampUpdateTest(r)
        \/ SentenceBreakTest(r)
        \/ SentenceDeleteTest(r)
        \/ LessonDeleteTest(r)
        \/ LessonGetAfterDeleteTest(r)

HarnessSpec == HarnessInit /\ [][HarnessNext]_vars

\* ------------------------------------------------------------------------
\* Vocabulary of the properties
\* ------------------------------------------------------------------------
Created == 1..Len(nodes)
Tests == { n \in Created : nodes[n].type = "test" }
Groups == { n \in Created : nodes[n].type = "group" }
Range(s) == { s[k] : k \in DOMAIN s }

\* The tests of a case: itself, or the tests at any depth below a group.
TestsUnder(n) == { t \in Subtree(n) : nodes[t].type = "test" }

\* The group whose tests array holds the case, 0 for a root case.
Parent(n) ==
    IF \E g \in Groups : n \in Range(nodes[g].tests)
    THEN CHOOSE g \in Groups : n \in Range(nodes[g].tests)
    ELSE 0

\* The entries of results that carry the name of test t.
EntriesOf(t) == { k \in DOMAIN results : results[k].name = nodes[t].name }

\* A piece of the error text is the given name.
RefersTo(error, name) == \E k \in DOMAIN error : error[k] = name

\* The loop of group g has dealt with its k-th case (run it or skipped it).
Passed(g, k) ==
    \/ signal[g] # "none"
    \/ \E d \in DOMAIN stack : stack[d].fn = "runGroup" /\ stack[d].node = g /\ stack[d].i > k

\* An earlier case of group g than the k-th returned "blocked".
EarlierBlocked(g, k) == \E j \in 1..(k - 1) : signal[nodes[g].tests[j]] = "T"

\* No body of a test of case n was ever invoked.
NeverExecuted(n) == \A t \in TestsUnder(n) : body[t] = "idle"

\* Every test of case n is recorded once, as not passed.
RecordedNotPassed(n) ==
    \A t \in TestsUnder(n) :
        /\ Cardinality(EntriesOf(t)) = 1
        /\ \A k \in EntriesOf(t) : ~results[k].passed

\* Case c was run: runTestCase was called on it.
WasRun(c) == IF nodes[c].type = "test" THEN body[c] # "idle" ELSE c \in entered

\* The cases iterated by the loop of p (p = 0: the loop of runTests).
LoopCases(p) == IF p = 0 THEN rootTests ELSE nodes[p].tests

\* runTests is over: it resolved or it rejected.
RunOver == pc \in {"done", "rejected"}

C2_ReasonNamesTrigger ==
    \A t \in Tests : skipBy[t] # 0 =>
        \A k \in EntriesOf(t) : RefersTo(results[k].error, nodes[skipBy[t]].name)

\* C2 as amended: a skipped test that is a case of G itself is recorded with
\* the reason that names G; a test inside a skipped subgroup is recorded with
\* the reason that names the subgroup holding it.
C2_ReasonNamesParent ==
    \A t \in Tests : skipBy[t] # 0 =>
        /\ EntriesOf(t) # {}
        /\ \A k \in EntriesOf(t) :
            results[k].error =
                IF Parent(t) = skipBy[t]
                THEN BlockedReason(nodes[skipBy[t]].name)
                ELSE ParentReason(nodes[Parent(t)].name)

\* A test inside a subgroup was skipped because the enclosing group was blocked.
C2_Witness ==
    \E t \in Tests : skipBy[t] # 0 /\ Parent(t) # skipBy[t] /\ EntriesOf(t) # {}

\* C3 as claimed: a non-blocking group never returns "blocked", and the case
\* registered right after a non-blocking group that was run is never skipped
\* and, when runTests is over, has been run.
C3_NonBlockingAbsorbs ==
    /\ \A g \in Groups : ~nodes[g].blocking => signal[g] # "T"
    /\ \A p \in Groups \cup {0} : \A k \in 1..(Len(LoopCases(p)) - 1) :
        LET g == LoopCases(p)[k]
            next == LoopCases(p)[k + 1]
        IN  nodes[g].type = "group" /\ ~nodes[g].blocking /\ g \in entered =>
                /\ skipBy[next] = 0
                /\ RunOver => WasRun(next)

\* C3, the part that holds in every run: a non-blocking group never returns
\* "blocked", the case registered right after it is never skipped, and it has
\* been run as soon as the group has returned.
C3_NonBlockingAbsorbsOnReturn ==
    /\ \A g \in Groups : ~nodes[g].blocking => signal[g] # "T"
    /\ \A p \in Groups \cup {0} : \A k \in 1..(Len(LoopCases(p)) - 1) :
        LET g == LoopCases(p)[k]
            next == LoopCases(p)[k + 1]
        IN  nodes[g].type = "group" /\ ~nodes[g].blocking /\ g \in entered =>
                /\ skipBy[next] = 0
                /\ signal[g] # "none" => WasRun(next)

\* A blocking test failed inside a non-blocking group, a blocked blocking
\* subgroup sits in a non-blocking group, and the test after the group, in a
\* blocking parent, passed.
C3_Witness ==
    \E p \in Groups : \E k \in 1..(Len(nodes[p].tests) - 1) :
        LET g == nodes[p].tests[k]
            next == nodes[p].tests[k + 1]
        IN  /\ nodes[p].blocking
            /\ nodes[g].type = "group" /\ ~nodes[g].blocking
            /\ \E c \in Range(nodes[g].tests) : signal[c] = "T"
            /\ nodes[next].type = "test" /\ body[next] = "ok"

C5_EveryThrowIsRecorded ==
    /\ pc # "rejected"
    /\ \A t \in Tests : body[t] = "threw" =>
        /\ Cardinality(EntriesOf(t)) = 1
        /\ \A k \in EntriesOf(t) : ~results[k].passed /\ results[k].error # <<>>

\* The tests in depth-first registration order: the cases of a list in order,
\* the tests of a group in place of the group.
RECURSIVE DepthFirst(_, _)
DepthFirst(cases, k) ==
    IF k > Len(cases) THEN <<>>
    ELSE (IF nodes[cases[k]].type = "test"
          THEN <<cases[k]>>
          ELSE DepthFirst(nodes[cases[k]].tests, 1)) \o DepthFirst(cases, k + 1)

\* The position of test t in a sequence of tests (0: not in it).
PositionIn(order, t) ==
    IF \E k \in DOMAIN order : order[k] = t
    THEN CHOOSE k \in DOMAIN order : order[k] = t
    ELSE 0

\* C6: test bodies are invoked one at a time in depth-first registration
\* order: the bodies invoked so far are in that order, every test before the
\* last invoked one was invoked or skipped, and a body is invoked only when
\* every body invoked before it has resolved or rejected.
C6_SequentialDepthFirst ==
    LET order == DepthFirst(rootTests, 1) IN
    /\ \A a \in DOMAIN started : PositionIn(order, started[a]) > 0
    /\ \A a, b \in DOMAIN started :
        a < b => PositionIn(order, started[a]) < PositionIn(order, started[b])
    /\ \A a \in DOMAIN started : \A k \in 1..(PositionIn(order, started[a]) - 1) :
        body[order[k]] # "idle" \/ skipBy[order[k]] # 0
    /\ \A a \in DOMAIN started : a < Len(started) => body[started[a]] \in {"ok", "threw"}
    /\ Cardinality({ t \in Tests : body[t] = "active" }) <= 1

\* Three bodies were invoked, one of them inside a group and one of them a
\* root case that follows the group.
C6_Witness ==
    /\ Len(started) >= 3
    /\ \E a, b \in DOMAIN started :
        /\ a < b
        /\ Parent(started[a]) # 0
        /\ Parent(started[b]) = 0

\* How often entry r occurs in a sequence of entries.
Occurrences(seq, r) == Cardinality({ k \in DOMAIN seq : seq[k] = r })

\* C7, the part that holds in every run: the summary is printed at most once,
\* and exactly once when runTests resolves; when it is printed every root
\* case, the ones appended during the run included, has been run and has
\* returned; the two printed lists hold every entry of results exactly once,
\* so no result is recorded later.
C7_SummaryOnceAtTheEnd ==
    /\ Len(summary) <= 1
    /\ pc = "done" <=> Len(summary) = 1
    /\ Len(summary) = 1 =>
        /\ \A k \in DOMAIN rootTests : WasRun(rootTests[k]) /\ signal[rootTests[k]] # "none"
        /\ \A t \in Tests : body[t] # "active"
        /\ \A t \in Tests : Cardinality(EntriesOf(t)) = 1
        /\ Len(summary[1].passedTests) + Len(summary[1].failedTests) = Len(results)
        /\ \A k \in DOMAIN results :
            Occurrences(summary[1].passedTests, results[k])
                + Occurrences(summary[1].failedTests, results[k])
            = Occurrences(results, results[k])

\* C7 as claimed: the summary is printed exactly once, in every run: it has
\* been printed when runTests is over, after every root case was run or
\* skipped, and it holds every entry of results exactly once.
C7_SummaryExactlyOnce ==
    /\ C7_SummaryOnceAtTheEnd
    /\ RunOver => Len(summary) = 1

\* The summary was printed with a passed, a failed and a skipped test.
C7_Witness ==
    /\ pc = "done"
    /\ Len(summary) = 1
    /\ summary[1].passedTests # <<>>
    /\ \E k \in DOMAIN summary[1].failedTests : Len(summary[1].failedTests[k].error) = 1
    /\ \E t \in Tests : skipBy[t] # 0

\* The groups of the open createTestGroup calls, outermost first.
OpenGroups == [k \in DOMAIN callbacks |-> callbacks[k].group]

\* The groupStack holds the groups whose callback is open, each call found
\* the stack at the depth at which its return leaves it.
StackFollowsCallbacks ==
    /\ groupStack = OpenGroups
    /\ \A k \in DOMAIN callbacks : callbacks[k].depth = k - 1

\* A case created in this step became the last case of the innermost group
\* whose callback is open, or of rootTests when none is open; nothing else
\* changed place.
CreatedInInnermost ==
    Len(nodes') = Len(nodes) + 1 =>
        LET id == Len(nodes') IN
        /\ IF callbacks = <<>>
           THEN rootTests' = Append(rootTests, id)
           ELSE /\ rootTests' = rootTests
                /\ nodes'[Last(callbacks).group].tests =
                       Append(nodes[Last(callbacks).group].tests, id)
        /\ \A g \in Created :
            (callbacks = <<>> \/ g # Last(callbacks).group) => nodes'[g].tests = nodes[g].tests
        /\ nodes'[id].tests = <<>>

\* A return of createTestGroup leaves the stack as the call found it.
ReturnRestoresStack ==
    Len(callbacks') < Len(callbacks) =>
        /\ Len(groupStack') = Last(callbacks).depth
        /\ groupStack' = SubSeq(groupStack, 1, Last(callbacks).depth)

\* C8: registration is stack-scoped: a case created while callbacks are open
\* becomes the last case of the innermost open group, a case created with no
\* open callback goes to rootTests, and when the callback of a group returns
\* the stack is back at the depth it had before the call.
C8_StackScopedRegistration ==
    /\ []StackFollowsCallbacks
    /\ [][CreatedInInnermost /\ ReturnRestoresStack]_vars

\* A group nested in a group got a case, was closed, and the next case went to
\* the enclosing group.
C8_Witness ==
    /\ groupStack = <<>>
    /\ \E g \in Groups : \E k \in 1..(Len(nodes[g].tests) - 1) :
        /\ nodes[nodes[g].tests[k]].type = "group"
        /\ nodes[nodes[g].tests[k]].tests # <<>>

\* C9 as claimed: whatever a root case did, once runTests is over every root
\* case was run, and no test of a root case was skipped because of another
\* root case.
C9_RootCasesIsolated ==
    /\ RunOver => \A k \in DOMAIN rootTests : WasRun(rootTests[k])
    /\ \A k \in DOMAIN rootTests : \A t \in Subtree(rootTests[k]) :
        skipBy[t] # 0 => skipBy[t] \in Subtree(rootTests[k])

\* C9, the part that holds in every run: once a root case has returned,
\* blocked or not, the root case after it has been run, and no test of a root
\* case is skipped because of another root case.
C9_RootCasesIsolatedOnReturn ==
    /\ \A k \in 1..(Len(rootTests) - 1) :
        signal[rootTests[k]] # "none" => WasRun(rootTests[k + 1])
    /\ \A k \in DOMAIN rootTests : \A t \in Subtree(rootTests[k]) :
        skipBy[t] # 0 => skipBy[t] \in Subtree(rootTests[k])

\* The first position of character ch in string s, 0 when s does not hold it.
FirstIndex(s, ch) ==
    LET hits == { k \in DOMAIN s : s[k] = ch } IN
    IF hits = {} THEN 0 ELSE CHOOSE k \in hits : \A j \in hits : k <= j

\* The pieces of string s between the occurrences of character sep.
RECURSIVE SplitAt(_, _)
SplitAt(s, sep) ==
    LET i == FirstIndex(s, sep) IN
    IF i = 0 THEN <<s>>
    ELSE <<SubSeq(s, 1, i - 1)>> \o SplitAt(SubSeq(s, i + 1, Len(s)), sep)

\* String s without its leading blanks.
RECURSIVE TrimLeft(_)
TrimLeft(s) == IF s # <<>> /\ Head(s) = " " THEN TrimLeft(Tail(s)) ELSE s

\* The value a Cookie header gives to the cookie `name`, as the receiver reads
\* it: the header is cut at every ";", each piece is a name, "=", a value.
CookieValue(cookie, name) ==
    LET pieces == SplitAt(cookie, ";")
        trimmed == [k \in DOMAIN pieces |-> TrimLeft(pieces[k])]
        eq == [k \in DOMAIN pieces |-> FirstIndex(trimmed[k], "=")]
        named == { k \in DOMAIN pieces :
                     eq[k] > 0 /\ SubSeq(trimmed[k], 1, eq[k] - 1) = name }
        first == CHOOSE k \in named : \A j \in named : k <= j
    IN  IF named = {} THEN [present |-> FALSE, value |-> <<>>]
        ELSE [present |-> TRUE,
              value |-> SubSeq(trimmed[first], eq[first] + 1, Len(trimmed[first]))]

\* C10: in every header set built with includeCsrf the X-CSRFToken header and
\* the csrftoken cookie of the Cookie header carry the same value, the CSRF
\* token the constructor was given; every request that is not a GET is sent
\* with such a header set, whatever calls were made before.
C10_CsrfHeaderEqualsCookie ==
    /\ request.includeCsrf =>
        /\ {"Cookie", "X-CSRFToken"} \subseteq DOMAIN request.headers
        /\ CookieValue(request.headers["Cookie"], CsrfCookieName)
               = [present |-> TRUE, value |-> request.headers["X-CSRFToken"]]
        /\ request.headers["X-CSRFToken"] = given.csrfToken
    /\ request.op # "none" /\ request.method # "GET" => request.includeCsrf

\* A sentence was deleted as the second call of a client whose token holds a
\* "=" and differs from the session id.
C10_Witness ==
    /\ calls = 2
    /\ request.op = "sentenceDelete"
    /\ request.includeCsrf
    /\ given.csrfToken = <<"=", "a">>
    /\ given.sessionId = <<"a">>
    /\ request.headers["X-CSRFToken"] = <<"=", "a">>

\* The names of the common headers (lines 160-172).
CommonNames ==
    {"Accept", "Priority", "Sec-CH-UA", "Sec-CH-UA-Mobile", "Sec-CH-UA-Platform",
     "Sec-Fetch-Dest", "Sec-Fetch-Mode", "Sec-Fetch-Site", "X-Lingq-App",
     "Referer", "Referrer-Policy"}

\* Header set h is what the header policy prescribes for the two flags: the
\* common headers as the constructor set them, a Cookie header with the CSRF
\* cookie and the session cookie, Content-Type exactly when isPost and
\* X-CSRFToken exactly when includeCsrf.
HeaderPolicy(h, isPost, includeCsrf) ==
    LET common == NewClient(given.languageCode, given.lessonCode,
                            given.csrfToken, given.sessionId).commonHeaders
    IN  /\ DOMAIN h = CommonNames \cup {"Cookie"}
                        \cup (IF isPost THEN {"Content-Type"} ELSE {})
                        \cup (IF includeCsrf THEN {"X-CSRFToken"} ELSE {})
        /\ [n \in CommonNames |-> h[n]] = common
        /\ CookieValue(h["Cookie"], CsrfCookieName)
               = [present |-> TRUE, value |-> given.csrfToken]
        /\ CookieValue(h["Cookie"], SessionCookieName)
               = [present |-> TRUE, value |-> given.sessionId]
        /\ isPost => h["Content-Type"] = <<"application/json">>
        /\ includeCsrf => h["X-CSRFToken"] = given.csrfToken

\* C11: for each of the four combinations of isPost and includeCsrf the
\* header set buildHeaders returns, in every state a client can be in, is the
\* one the header policy prescribes; so is the header set of every request
\* sent, whatever flags the calls before it used.
C11_HeaderPolicy ==
    /\ \A isPost, includeCsrf \in BOOLEAN :
        HeaderPolicy(buildHeaders(client, isPost, includeCsrf), isPost, includeCsrf)
    /\ request.op # "none" => HeaderPolicy(request.headers, request.isPost, request.includeCsrf)

\* A request built with both flags false was sent right after a request
\* built with both flags true.
C11_Witness ==
    /\ request.op = "lessonWordsGet"
    /\ ~request.isPost /\ ~request.includeCsrf
    /\ request.before = Flags(TRUE, TRUE)
    /\ "Content-Type" \notin DOMAIN request.headers
    /\ "X-CSRFToken" \notin DOMAIN request.headers

\* The operations that return data parsed from the response body.
ValidatedOps ==
    {"lessonGet", "lessonCreate", "lessonStatsReadTimeIncrement",
     "lessonStatsListenTimeIncrement", "updateCardStatus", "lessonWordsGet",
     "sentenceCreate", "sentenceTimestampUpdate", "getTTSSpeech"}

\* C12: no operation returns parsed data of a wrong shape: when one of the
\* nine operations that return parsed data got a body that is not of the
\* expected shape the call threw, and whatever an operation returns after
\* reading the body comes from a body of the expected shape.
C12_InvalidShapeThrows ==
    /\ request.op \in ValidatedOps /\ outcome.response.body # "valid" => outcome.kind = "threw"
    /\ request.op \in ValidatedOps /\ outcome.kind = "returned" => outcome.parsed
    /\ outcome.kind = "returned" /\ outcome.parsed => outcome.response.body = "valid"

\* lessonWordsGet got an ok response of a wrong shape and threw the error of
\* typia.assert.
C12_Witness ==
    /\ request.op = "lessonWordsGet"
    /\ outcome.response = [ok |-> TRUE, body |-> "invalid"]
    /\ outcome.kind = "threw" /\ outcome.what = "TypeGuardError"

\* C13 as claimed: after lessonCreate returned a result with id N the client's
\* current lesson is N.
C13_CreateSwitchesLesson ==
    request.op = "lessonCreate" /\ outcome.kind = "returned" => client.lessonCode = outcome.id

\* The operations whose URL names the current lesson.
LessonScopedOps ==
    {"lessonGet", "lessonWordsGet", "lessonBookmarkCreate",
     "lessonStatsReadTimeIncrement", "lessonStatsListenTimeIncrement",
     "sentenceTimestampUpdate", "sentenceTextUpdate", "sentenceCreate",
     "sentenceDelete", "sentenceBreak"}

\* The lesson a lesson-scoped URL names: the piece after ".../lessons/" or
\* ".../lesson-stats/".
LessonOf(url) == url[4]

\* The last lesson-scoped request named the client's current lesson.
RequestTargetsCurrent ==
    request.op \in LessonScopedOps => LessonOf(request.url) = ToString(client.lessonCode)

\* A call made in this step changed the current lesson only if it is a
\* lessonGet with an override, and then to the override, however the call ended.
OnlyOverrideSwitches ==
    calls' = calls + 1 =>
        IF request'.op = "lessonGet" /\ request'.arg # Undefined
        THEN client'.lessonCode = request'.arg
        ELSE client'.lessonCode = client.lessonCode

SentenceOpsChecked == {"sentenceCreate", "sentenceTimestampUpdate"}
SentenceOpsRaw == {"sentenceTextUpdate", "sentenceDelete", "sentenceBreak"}

\* C15 as claimed: none of the five sentence operations returns normally for
\* a response that is not ok.
C15_SentenceOpsThrow ==
    request.op \in SentenceOpsChecked \cup SentenceOpsRaw /\ ~outcome.response.ok
        => outcome.kind = "threw"

\* C15 as amended: sentenceCreate and sentenceTimestampUpdate throw their
\* error for a response that is not ok, without reading the body;
\* sentenceTextUpdate, sentenceDelete and sentenceBreak return the Response
\* itself, ok or not, and never throw.
C15_SentenceOpsCheckedOrRaw ==
    /\ request.op \in SentenceOpsChecked /\ ~outcome.response.ok =>
        /\ outcome.kind = "threw"
        /\ outcome.what \in {"Failed to create sentence", "Failed to update sentence timestamp"}
        /\ ~outcome.parsed
    /\ request.op \in SentenceOpsRaw =>
        /\ outcome.kind = "returned"
        /\ outcome.what = "Response"
        /\ ~outcome.parsed

\* sentenceDelete returned a response that is not ok.
C15_Witness ==
    /\ request.op = "sentenceDelete"
    /\ ~outcome.response.ok
    /\ outcome.kind = "returned"

\* The operations that test response.ok themselves, sentence operations
\* apart.
CheckedOps ==
    {"lessonGet", "lessonCreate", "lessonStatsReadTimeIncrement",
     "lessonStatsListenTimeIncrement", "updateCardStatus", "lessonBookmarkCreate",
     "getTTSSpeech"}

\* The message of the error each of them throws for a response that is not ok.
HttpFailure ==
    {"Lesson doesn't exist.", "Failed to create lesson", "Failed to increment read time",
     "Failed to update card status", "Failed to create bookmark", "Failed to get TTS speech"}

\* C16: for the seven operations of CheckedOps a response that is not ok
\* makes the call throw its HTTP error before the body is parsed or
\* validated, and the call sent exactly one request, whatever the response.
C16_NotOkThrowsBeforeParse ==
    request.op \in CheckedOps =>
        /\ request.fetches = 1
        /\ ~outcome.response.ok =>
            /\ outcome.kind = "threw"
            /\ outcome.what \in HttpFailure
            /\ ~outcome.parsed

\* updateCardStatus threw for a response that is not ok and whose body would
\* not have passed the validation either.
C16_Witness ==
    /\ request.op = "updateCardStatus"
    /\ ~outcome.response.ok
    /\ outcome.response.body = "invalid"
    /\ outcome.kind = "threw"
    /\ outcome.what = "Failed to update card status"

\* The errors of a body that cannot be parsed or has another shape.
ShapeFailure == {"SyntaxError", "TypeGuardError"}

\* How the outcome of an operation of `ops` reports its response: a response
\* that is not ok is not reported as a parsing or shape failure, and an ok
\* response is not reported as an HTTP failure.
Distinguishable(ops) ==
    request.op \in ops =>
        /\ ~outcome.response.ok => ~(outcome.kind = "threw" /\ outcome.what \in ShapeFailure)
        /\ outcome.response.ok => ~(outcome.kind = "threw" /\ outcome.what \notin ShapeFailure)

\* C17: for every operation that returns a validated result, lessonWordsGet
\* included, a response that is not ok is never reported as a parsing or
\* shape-validation failure and an ok response of an invalid shape is never
\* reported as an HTTP failure.
C17_ErrorsDistinguishable == Distinguishable(ValidatedOps)

\* The part of C17 that holds: the same for the validated operations other
\* than lessonWordsGet.
C17_ErrorsDistinguishableWhereChecked == Distinguishable(ValidatedOps \ {"lessonWordsGet"})

\* lessonWordsGet reported a response that is not ok as a shape failure.
C17_Witness ==
    /\ request.op = "lessonWordsGet"
    /\ ~outcome.response.ok
    /\ outcome.kind = "threw"
    /\ outcome.what = "TypeGuardError"

\* The requests of task t name the lesson the task selected.
TargetsSelected(t) ==
    task[t].request.op \in LessonScopedOps =>
        LessonOf(task[t].request.url) = ToString(task[t].request.want)

\* C18: with one client instance per task, every lesson-scoped request of a
\* task is sent to the lesson that task selected last (by its constructor or
\* by its own lessonGet), however the two tasks interleave.
C18_OneClientPerTaskIsolated ==
    ~shared => \A t \in Tasks : TargetsSelected(t)

\* The unsafe interleaving on a shared instance: task 1 called lessonGet(7),
\* task 2 called lessonGet(8) while task 1 was suspended in it, and the
\* second call of task 1, lessonWordsGet, was sent to lesson 8.
C18_Witness ==
    /\ shared
    /\ task[2].count = 1
    /\ task[2].request.op = "lessonGet"
    /\ task[2].request.arg = 8
    /\ task[2].request.during[1] = [op |-> "lessonGet", arg |-> 7]
    /\ task[1].count = 2
    /\ task[1].request.op = "lessonWordsGet"
    /\ task[1].request.during[2] = NotSuspended
    /\ task[1].request.want = 7
    /\ LessonOf(task[1].request.url) = "8"

\* The entries of the flat runner's results that name test n.
flatEntriesOf(n) == { i \in 1..Len(flat.results) : flat.results[i].name = n }

\* Test n of the flat runner was recorded as skipped, once.
flatRecordedSkipped(n) ==
    /\ Cardinality(flatEntriesOf(n)) = 1
    /\ \A i \in flatEntriesOf(n) : flat.results[i] = flatSkipped(n)

\* The bodies are invoked one at a time, in the order of the createTest
\* calls: the tests invoked so far are the first ones created, each of them
\* but the one being awaited has settled and has one entry, and once a body
\* has rejected it is the last one that was invoked.
flatFifo ==
    /\ Len(flat.started) <= Len(flat.created)
    /\ flat.started = SubSeq(flat.created, 1, Len(flat.started))
    /\ flat.tests = SubSeq(flat.created, Len(flat.created) - Len(flat.tests) + 1,
                           Len(flat.created))
    /\ \A i \in 1..Len(flat.started) :
           IF flat.pc = "running" /\ i = Len(flat.started)
           THEN flat.current = <<flat.started[i]>> /\ flatEntriesOf(flat.started[i]) = {}
           ELSE flat.started[i] \in Range(flat.threw)
                    \/ Cardinality(flatEntriesOf(flat.started[i])) = 1
    /\ Len(flat.threw) <= 1
    /\ flat.threw # <<>> =>
           /\ flat.pc # "running"
           /\ Last(flat.started) = flat.threw[1]

\* The summary is printed once, when runTests resolves, with an empty queue.
flatSummaryAtEnd ==
    /\ flat.summary # <<>> <=> flat.pc = "done"
    /\ flat.pc = "done" =>
           /\ flat.tests = <<>>
           /\ flat.summary = <<printSummary(flat.results)>>

\* Every test that was not invoked is recorded as skipped.
flatRestSkipped ==
    \A i \in 1..Len(flat.created) :
        i > Len(flat.started) => flatRecordedSkipped(flat.created[i])

\* C20: in the flat runner the bodies run one at a time in the order of
\* registration, tests registered by a running body included; once a body
\* has failed no other body is invoked and, the run being over, every test
\* that was still to run is recorded as not passed with 'Skipped due to
\* previous failure'; the queue is empty when the summary is printed.
C20_FlatFifoSkipsAfterFailure ==
    /\ flatFifo
    /\ flatSummaryAtEnd
    /\ flat.pc \in {"done", "rejected"} /\ flat.threw # <<>> => flatRestSkipped

\* The part of C20 that holds in every run: the same, for the runs in which
\* runTests resolves.
C20_FlatFifoSkipsWhenResolved ==
    /\ flatFifo
    /\ flatSummaryAtEnd
    /\ flat.pc = "done" => flatRestSkipped

\* The second of four tests failed after it registered the fourth: the third
\* and the fourth were skipped and the summary was printed.
C20_Witness ==
    /\ flat.pc = "done"
    /\ flat.created = <<1, 2, 3, 4>>
    /\ flat.results[2].error = <<"boom">>
    /\ flat.started = <<1, 2>>
    /\ flat.threw = <<2>>
    /\ flatRecordedSkipped(3)
    /\ flatRecordedSkipped(4)
    /\ Len(flat.results) = 4

\* The entries of the script's results for 'Lesson Get After Delete'.
GetAfterDeleteEntries ==
    { i \in 1..Len(flat.results) : flat.results[i].name = "Lesson Get After Delete" }

\* C19: 'Lesson Get After Delete' is recorded as passed only when lessonGet
\* for the deleted lesson failed, and as failed with 'Lesson was not deleted'
\* whenever that lessonGet returned the lesson.
C19_GetAfterDeleteEnforced ==
    \A i \in GetAfterDeleteEntries :
        /\ flat.results[i].passed => outcome.kind = "threw"
        /\ outcome.kind = "returned" =>
            /\ ~flat.results[i].passed
            /\ flat.results[i].error = <<"Lesson was not deleted">>

\* What the script does instead: the test is recorded as passed whatever
\* lessonGet did.
C19_GetAfterDeleteAlwaysPasses ==
    \A i \in GetAfterDeleteEntries : flat.results[i].passed

\* The lesson was deleted with an ok response, lessonGet for its id then
\* returned the lesson, and 'Lesson Get After Delete' is recorded as passed.
C19_Witness ==
    /\ flat.pc = "done"
    /\ request.op = "lessonGet"
    /\ request.arg = lessonId
    /\ LessonOf(request.url) = ToString(lessonId)
    /\ outcome.kind = "returned"
    /\ \E i \in GetAfterDeleteEntries : flat.results[i].passed

\* Every test created so far has one entry in results that tells what became
\* of it: passed for a body that resolved, not passed for a body that
\* rejected, not passed for a test that was skipped; no body was invoked
\* twice and no skipped test had its body invoked.
OneEntryPerTest ==
    /\ \A t \in Tests :
        /\ Cardinality(EntriesOf(t)) = 1
        /\ \A k \in EntriesOf(t) :
            /\ results[k].passed <=> body[t] = "ok"
            /\ body[t] = "threw" => results[k].error # <<>>
            /\ body[t] = "idle" <=> skipBy[t] # 0
    /\ Len(results) = Cardinality(Tests)
    /\ \A t \in Tests : Occurrences(started, t) <= 1
    /\ \A t \in Tests : Occurrences(started, t) = 1 <=> body[t] # "idle"

\* C24 as claimed: once runTests is over, every test registered before or
\* during the run has exactly one entry in results (passed, failed or
\* skipped), no body was executed more than once, and no skipped test had
\* its body executed.
C24_OneEntryPerTest == RunOver => OneEntryPerTest

\* The part of C24 that holds in every run: the same, once runTests has
\* resolved.
C24_OneEntryPerTestWhenResolved == pc = "done" => OneEntryPerTest

\* runTests resolved after a run in which a test passed, a test failed and a
\* test was skipped, each of them with its one entry.
C24_Witness ==
    /\ pc = "done"
    /\ OneEntryPerTest
    /\ \E t \in Tests : body[t] = "ok"
    /\ \E t \in Tests : body[t] = "threw"
    /\ \E t \in Tests : skipBy[t] # 0

\* The cases created by a running test body while no createTestGroup callback
\* was open: the root cases that have a creator.
RunTimeCases == { n \in Created : createdBy[n] # 0 /\ Parent(n) = 0 }

\* The position of root case n in rootTests.
RootIndex(n) == CHOOSE k \in DOMAIN rootTests : rootTests[k] = n

\* What holds of the cases created by running bodies: each of them is in
\* the root list or in a group that was itself created by a running body,
\* never in a group that holds its creator; its creator's body had been
\* invoked; it is never skipped, whatever became of its creator and of the
\* creator's group; it is run only after every root case registered before
\* it has returned, and it has been run when runTests resolves.
RunTimeCasesAtRoot ==
    /\ \A n \in Created : createdBy[n] # 0 =>
        /\ nodes[createdBy[n]].type = "test"
        /\ body[createdBy[n]] # "idle"
        /\ createdBy[n] < n
        /\ Parent(n) # 0 => createdBy[Parent(n)] # 0 /\ createdBy[n] \notin Subtree(Parent(n))
    /\ \A n \in RunTimeCases :
        /\ skipBy[n] = 0
        /\ WasRun(n) => \A k \in 1..(RootIndex(n) - 1) : signal[rootTests[k]] # "none"
        /\ pc = "done" => WasRun(n)

\* A step in which a running body creates a case while no callback is open:
\* the body is the active one, the case is appended to rootTests and the
\* tests array of every group is left as it was.
RunTimeCreationAppendsToRoot ==
    pc = "running" /\ callbacks = <<>> /\ Len(nodes') = Len(nodes) + 1 =>
        /\ body[Creator] = "active"
        /\ createdBy'[Len(nodes')] = Creator
        /\ rootTests' = Append(rootTests, Len(nodes'))
        /\ \A g \in Created : nodes'[g].tests = nodes[g].tests

\* C25: a test or group created while a test body is executing, with no
\* group callback open, is appended to the root list and not to the group of
\* the creating test; it exists only if the creating body was executing; it
\* runs after every root case registered before it; and no blocking failure
\* in the creating test's group, the failure of the creating test after the
\* creation included, makes it skipped.
C25_RunTimeCreationGoesToRoot ==
    []RunTimeCasesAtRoot /\ [][RunTimeCreationAppendsToRoot]_vars

\* A blocking test inside a blocking group created a test and then failed:
\* the created test is a root case, it was not skipped and its body was
\* executed.
C25_Witness ==
    \E n \in RunTimeCases :
        LET t == createdBy[n] IN
        /\ nodes[n].type = "test"
        /\ nodes[t].blocking
        /\ body[t] = "threw"
        /\ signal[t] = "T"
        /\ Parent(t) # 0
        /\ nodes[Parent(t)].blocking
        /\ signal[Parent(t)] = "T"
        /\ body[n] = "ok"
        /\ pc = "done"

\* C21, first half, as claimed: when every body completes, a run that was
\* started eventually prints the summary.
C21_SummaryEventuallyPrinted == (pc = "running") ~> (Len(summary) = 1)

\* The part of it that holds: when every body completes, a run that was
\* started is eventually over; it has printed the summary if it resolved.
C21_RunEventuallyOver == (pc = "running") ~> (RunOver /\ (pc = "done" => Len(summary) = 1))

\* The same for the flat runner.
C21_FlatRunEventuallyOver ==
    (flat.pc = "running") ~> (flat.pc \in {"done", "rejected"}
                                /\ (flat.pc = "done" => Len(flat.summary) = 1))

\* C21, second half: as long as the body of a test does not complete, no
\* other body is invoked, no test is recorded as run or skipped and no
\* summary is printed.
C21_HungBodyHangsRun ==
    [][\A t \in Tests :
          body[t] = "active" /\ body'[t] = "active" =>
              /\ UNCHANGED <<results, started, summary, pc, skipBy, signal>>
              /\ summary = <<>>
              /\ \A u \in Tests \ {t} : body'[u] # "active"]_vars

\* The same for the flat runner.
C21_FlatHungBodyHangsRun ==
    [][flat.pc = "running" /\ flat'.pc = "running" /\ flat'.current = flat.current =>
          /\ flat'.results = flat.results
          /\ flat'.started = flat.started
          /\ flat.summary = <<>> /\ flat'.summary = <<>>]_vars

\* Every body of the run completed, the last one by rejecting with null or
\* undefined: runTests rejected and no summary was printed.
C21_Witness ==
    /\ pc = "rejected"
    /\ summary = <<>>
    /\ Len(started) >= 2
    /\ \A t \in Tests : body[t] # "active"

\* ------------------------------------------------------------------------
\* The end-to-end harness (src/test/test.ts on the grouped runner)
\* ------------------------------------------------------------------------
\* The entries of results that carry the given name.
EntriesNamed(name) == { k \in DOMAIN results : results[k].name = name }

\* The test of the given name has just been recorded: its client call is
\* still the last one the client made.
JustRecorded(name, op) ==
    /\ harness.ran = name
    /\ request.op = op
    /\ EntriesNamed(name) # {}

\* The last request was answered ok with a body of the expected shape.
AnsweredOkValid == outcome.response = [ok |-> TRUE, body |-> "valid"]

\* The test of the given name is recorded as passed whenever its request was
\* answered ok with a valid body.
PassesWhenOkValid(name, op) ==
    JustRecorded(name, op) /\ AnsweredOkValid =>
        \A k \in EntriesNamed(name) : results[k].passed

\* C23, as claimed: 'Sentence Create' is recorded as passed when the
\* sentence-create request returns ok with a valid Sentence, and 'Sentence
\* Timestamp Update' is recorded as passed when its request does.
C23_SentenceTestsPassOnSuccess ==
    /\ PassesWhenOkValid("Sentence Create", "sentenceCreate")
    /\ PassesWhenOkValid("Sentence Timestamp Update", "sentenceTimestampUpdate")

\* What the code does instead, in every run: the two tests are never recorded
\* as passed.  When the request succeeded the client returned the parsed
\* Sentence, which has neither json() nor ok, and the test failed on that.
C23_SentenceTestsNeverPass ==
    /\ \A k \in DOMAIN results :
          results[k].name \in {"Sentence Create", "Sentence Timestamp Update"} =>
              ~results[k].passed
    /\ JustRecorded("Sentence Create", "sentenceCreate") /\ AnsweredOkValid =>
          \A k \in EntriesNamed("Sentence Create") :
              results[k].error = <<"response.json is not a function">>
    /\ JustRecorded("Sentence Timestamp Update", "sentenceTimestampUpdate") /\ AnsweredOkValid =>
          \A k \in EntriesNamed("Sentence Timestamp Update") :
              results[k].error = <<"Sentence timestamp update failed">>

\* Both requests were answered ok with a valid Sentence and both tests are
\* recorded as failed.
C23_Witness ==
    /\ JustRecorded("Sentence Timestamp Update", "sentenceTimestampUpdate")
    /\ AnsweredOkValid
    /\ \E k \in EntriesNamed("Sentence Create") :
          results[k].error = <<"response.json is not a function">>
    /\ \E k \in EntriesNamed("Sentence Timestamp Update") : ~results[k].passed

\* The names of the tests whose body was invoked, in the order of invocation.
StartedNames == [k \in DOMAIN started |-> nodes[started[k]].name]

\* The order in which each test needs what the ones before it did.
DependencyOrder ==
    << "Lesson Create", "Lesson Get", "Lesson Words Get",
       "Sentence Create", "Sentence Text Update", "Sentence Timestamp Update",
       "Sentence Break", "Sentence Delete",
       "Lesson Delete", "Lesson Get After Delete" >>

SentenceTests ==
    { "Sentence Create", "Sentence Text Update", "Sentence Timestamp Update",
      "Sentence Break", "Sentence Delete" }

\* The tests whose closure reads the captured lessonId.
LessonIdTests == { "Lesson Get", "Lesson Delete", "Lesson Get After Delete" }

IsPrefix(s, t) == Len(s) <= Len(t) /\ \A k \in DOMAIN s : s[k] = t[k]

HasStarted(name) == \E k \in DOMAIN started : nodes[started[k]].name = name

\* The test of the given name was run to its end, or skipped.
RunOrSkipped(name) ==
    \E n \in Tests : nodes[n].name = name /\ (body[n] \in {"ok", "threw"} \/ skipBy[n] # 0)

\* The bodies invoked so far are the first tests of the dependency order,
\* each once.
StartedInDependencyOrder == IsPrefix(StartedNames, DependencyOrder)

\* 'Lesson Delete' has not started before every sentence test was run or
\* skipped.
DeleteAfterSentenceTests ==
    HasStarted("Lesson Delete") => \A name \in SentenceTests : RunOrSkipped(name)

\* A test that uses the created lesson id has started only if 'Lesson Create'
\* passed and left that id in lessonId, and its request carries the id; the
\* tests that go by the client's lessonCode address the created lesson too.
LessonIdObtainedBeforeUse ==
    /\ request.op = "lessonCreate" /\ outcome.kind = "returned" => lessonId = outcome.id
    /\ request.op = "lessonCreate" /\ outcome.kind = "threw" => lessonId = Undefined
    /\ \A name \in LessonIdTests :
          HasStarted(name) =>
              /\ lessonId \in LessonIds
              /\ \E k \in EntriesNamed("Lesson Create") : results[k].passed
              /\ harness.ran = name => request.arg = lessonId
    /\ harness.ran \in SentenceTests \cup {"Lesson Words Get"} =>
          /\ client.lessonCode = lessonId
          /\ request.url = BaseURL([client EXCEPT !.lessonCode = lessonId])
                               \o <<IF harness.ran = "Lesson Words Get"
                                     THEN "/words/" ELSE "/sentences/">>

\* 'Lesson Get After Delete' exists and runs only after the delete request
\* returned ok.
GetAfterDeleteOnlyAfterOk ==
    /\ (\E n \in Tests : nodes[n].name = "Lesson Get After Delete") =>
          /\ HasStarted("Lesson Delete")
          /\ harness.ran = "Lesson Delete" => request.op = "lessonDelete" /\ outcome.response.ok
    /\ HasStarted("Lesson Get After Delete") =>
          \E k \in EntriesNamed("Lesson Delete") : results[k].passed

\* C22: in the end-to-end harness the bodies run in dependency order,
\* 'Lesson Create' first and 'Lesson Get After Delete' last; 'Lesson Delete'
\* does not start before every sentence test was run or skipped; no test that
\* uses the created lesson id runs unless 'Lesson Create' obtained it; and
\* 'Lesson Get After Delete' runs only after the delete request returned ok.
C22_HarnessRunsInDependencyOrder ==
    /\ StartedInDependencyOrder
    /\ DeleteAfterSentenceTests
    /\ LessonIdObtainedBeforeUse
    /\ GetAfterDeleteOnlyAfterOk

\* A run that went through the whole tree: all ten bodies were invoked, the
\* last one 'Lesson Get After Delete', with sentence tests that failed on the
\* way, and the summary is printed.
C22_Witness ==
    /\ pc = "done"
    /\ StartedNames = DependencyOrder
    /\ EntriesNamed("Lesson Get After Delete") # {}
    /\ \E k \in DOMAIN results : results[k].name \in SentenceTests /\ ~results[k].passed
    /\ \E k \in DOMAIN results : results[k].name = "Lesson Get" /\ ~results[k].passed

====
